---- MODULE Spec2Model ----
(***************************************************************************)
(* A model of the virtual-router agent core:                               *)
(*   - the task exclusion policy installed by Agent::SetAgentTaskPolicy    *)
(*     and the scheduler that honours it,                                   *)
(*   - the VRF table (VrfTable / VrfEntry) on top of the partitioned table *)
(*     engine, the lifetime manager and the delete timer,                  *)
(*   - the flow stats collector (FlowStatsCollector): aging of flows and   *)
(*     reconciliation of their counters with the kernel's.                 *)
(***************************************************************************)
EXTENDS Integers, Sequences, FiniteSets, TLC

VARIABLES
    \* ---- TaskScheduler ----
    task_names,     \* registry of task names; the id of a name is its position - 1
    policy,         \* task id -> the exclusion list registered by SetPolicy
    lifetime_task,  \* the task id the LifetimeManager was created with
    task_queue,     \* <<class id, instance>> -> FIFO of submitted work
    running,        \* <<class id, instance>> -> the work that runs, or "idle"
    \* ---- VrfTable, its partitions and collaborators ----
    entries,        \* name -> the VrfEntry object of that key (in_part: in the partition map)
    name_tree,      \* VrfTable::name_tree_ (the names it maps)
    dbtree,         \* VrfTable::dbtree_[table_type] (the names each maps)
    db_tables,      \* route tables registered in the DB, <<vrf name, table_type>>
    index_table,    \* VrfTable::index_table_: [used: ids in use, next: next id]
    lm_pending,     \* actors the LifetimeManager holds as pending
    actor_log,      \* name -> the calls made on the DeleteActor of its latest entry
    delete_timer,   \* name -> the delete timer last started for it
    req_queue,      \* shard -> FIFO of requests
    cfg_node,       \* routing-instance config node of a name: absent / present / deleted
    resync,         \* config nodes with a NodeReSync outstanding
    aborted,        \* the process died on assert(0)
    last,           \* what the last step did (request outcome, Destroy, ...)
    \* ---- FlowStatsCollector, the flow table and the kernel flow table ----
    flow_table,     \* FlowTable::flow_entry_map_: key -> FlowEntry
    kernel_flows,   \* flow handle -> the kernel's record of the flow
    collector,      \* run_counter_, flow_iteration_key_, flow_count_per_pass_, timer interval
    flow_env,       \* clock ticks and kernel updates so far
    pass,           \* what the last pass of Run saw and did
    \* ---- DBTableWalker, the peer and the export state of the VRF entries ----
    walker,         \* next walk id, and walk id -> the walk started under it
    peer,           \* the peer's walk ids, walk counter, cleanups and completions
    vrf_export,     \* VRF -> deleted, VrfExport::State present, its ucwalkid_[]
    walk_env,       \* top-level walks started so far
    \* ---- Agent::CreateModules and Sandesh ----
    agent_modules   \* the parameters of the agent, and what CreateModules did with them

schedVars == <<task_names, policy, lifetime_task, task_queue, running>>
vrfVars == <<entries, name_tree, dbtree, db_tables, index_table, lm_pending,
             actor_log, delete_timer, req_queue, cfg_node, resync, aborted, last>>
flowVars == <<flow_table, kernel_flows, collector, flow_env, pass>>
walkVars == <<walker, peer, vrf_export, walk_env>>
moduleVars == <<agent_modules>>
vars == <<task_names, policy, lifetime_task, task_queue, running,
          entries, name_tree, dbtree, db_tables, index_table, lm_pending,
          actor_log, delete_timer, req_queue, cfg_node, resync, aborted, last,
          flow_table, kernel_flows, collector, flow_env, pass,
          walker, peer, vrf_export, walk_env, agent_modules>>

\* ---------------------------------------------------------------- bounds
\* Number of instance keys of a task class; also the partition count P of a table.
NumInstances == 2
\* Tasks submitted and not yet finished, over all classes.
MaxTasks == 3
\* Requests waiting in the shard queues of the VRF table.
MaxQueue == 2
\* References external holders take on one VRF entry.
MaxRefs == 1
\* Ids the index allocator hands out before the model stops adding.
MaxIds == 3

Range(s) == {s[i] : i \in DOMAIN s}

\* ------------------------------------------------ Agent task policy (part_000)
\* TaskScheduler::GetTaskId: the id of a name, allocated on first use.
KnownTask(names, name) == \E i \in DOMAIN names : names[i] = name
GetTaskId(names, name) ==
    IF KnownTask(names, name)
    THEN (CHOOSE i \in DOMAIN names : names[i] = name) - 1
    ELSE Len(names)
NamesAfterGetTaskId(names, name) ==
    IF KnownTask(names, name) THEN names ELSE Append(names, name)

\* TaskScheduler::SetPolicy: the policy of task_id is replaced by the one given.
SetPolicy(pol, task_id, p) ==
    [x \in (DOMAIN pol) \cup {task_id} |-> IF x = task_id THEN p ELSE pol[x]]

\* The for loop of SetTaskPolicyOne, from index i: policy.push_back(TaskExclusion(id)).
RECURSIVE ExcludeLoop(_, _, _, _, _)
ExcludeLoop(names, p, exclude_list, count, i) ==
    IF i >= count
    THEN [names |-> names, policy |-> p]
    ELSE ExcludeLoop(NamesAfterGetTaskId(names, exclude_list[i + 1]),
                     Append(p, GetTaskId(names, exclude_list[i + 1])),
                     exclude_list, count, i + 1)

\* A slip in the loop bound: the last name of the list is not excluded.
SetTaskPolicyOne_SkipsLast(st, task, exclude_list, count) ==
    LET r == ExcludeLoop(st.names, <<>>, exclude_list, count - 1, 0)
    IN  [names  |-> NamesAfterGetTaskId(r.names, task),
         policy |-> SetPolicy(st.policy, GetTaskId(r.names, task), r.policy)]

SetTaskPolicyOne(st, task, exclude_list, count) ==
    LET r == ExcludeLoop(st.names, <<>>, exclude_list, count, 0)
    IN  [names  |-> NamesAfterGetTaskId(r.names, task),
         policy |-> SetPolicy(st.policy, GetTaskId(r.names, task), r.policy)]

db_exclude_list ==
    << "Agent::FlowHandler", "Agent::Services", "Agent::StatsCollector",
       "sandesh::RecvQueue", "io::ReaderTask", "Agent::Uve", "Agent::KSync" >>

flow_exclude_list == << "Agent::StatsCollector", "io::ReaderTask" >>

sandesh_exclude_list ==
    << "db::DBTable", "Agent::FlowHandler", "Agent::Services",
       "Agent::StatsCollector", "io::ReaderTask" >>

xmpp_config_exclude_list ==
    << "Agent::FlowHandler", "Agent::Services", "Agent::StatsCollector",
       "sandesh::RecvQueue", "io::ReaderTask", "xmpp::StateMachine", "db::DBTable" >>

xmpp_state_machine_exclude_list == << "io::ReaderTask", "db::DBTable" >>

\* The KSync list without its flow handler entry.
ksync_exclude_list_NoFlow == << "Agent::StatsCollector", "db::DBTable" >>

ksync_exclude_list ==
    << "Agent::FlowHandler", "Agent::StatsCollector", "db::DBTable" >>

SetAgentTaskPolicy(st) ==
    LET s1 == SetTaskPolicyOne(st, "db::DBTable", db_exclude_list,
                               Len(db_exclude_list))
        s2 == SetTaskPolicyOne(s1, "Agent::FlowHandler", flow_exclude_list,
                               Len(flow_exclude_list))
        s3 == SetTaskPolicyOne(s2, "sandesh::RecvQueue", sandesh_exclude_list,
                               Len(sandesh_exclude_list))
        s4 == SetTaskPolicyOne(s3, "bgp::Config", xmpp_config_exclude_list,
                               Len(xmpp_config_exclude_list))
        s5 == SetTaskPolicyOne(s4, "xmpp::StateMachine",
                               xmpp_state_machine_exclude_list,
                               Len(xmpp_state_machine_exclude_list))
    IN  SetTaskPolicyOne(s5, "Agent::KSync", ksync_exclude_list,
                         Len(ksync_exclude_list))

\* The lifetime manager bound to a class the table policy does not cover.
LifetimeManagerTask_Other == "lifetime::Manager"

\* Agent::CreateLifetimeManager: the task name the LifetimeManager is created with.
LifetimeManagerTask == "db::DBTable"

\* The scheduler of a fresh process.
EmptyScheduler == [names |-> <<>>, policy |-> [x \in {} |-> <<>>]]

\* Agent::Agent(): SetAgentTaskPolicy(); CreateLifetimeManager();
AgentConstructed ==
    LET s == SetAgentTaskPolicy(EmptyScheduler)
    IN  [names         |-> NamesAfterGetTaskId(s.names, LifetimeManagerTask),
         policy        |-> s.policy,
         lifetime_task |-> GetTaskId(s.names, LifetimeManagerTask)]

\* ------------------------------------------------------ scheduler at run time
\* The instance key of the lifetime manager's retirement task.
LifetimeInstance == 0

Instances == 0 .. (NumInstances - 1)
ClassIds == 0 .. (Len(task_names) - 1)
Tags == ClassIds \X Instances
NameOf(id) == task_names[id + 1]
IdOf(name) == GetTaskId(task_names, name)

\* Class a's registered policy lists class b.
Excludes(a, b) == a \in DOMAIN policy /\ b \in Range(policy[a])
\* Exclusion as the scheduler applies it: in either direction.
Conflict(a, b) == Excludes(a, b) \/ Excludes(b, a)

IsRunning(tag) == running[tag] # "idle"
InFlight ==
    LET RECURSIVE Sum(_)
        Sum(S) == IF S = {} THEN 0
                  ELSE LET t == CHOOSE x \in S : TRUE
                       IN  Len(task_queue[t]) + (IF IsRunning(t) THEN 1 ELSE 0)
                           + Sum(S \ {t})
    IN  Sum(Tags)

\* The work submitted under a tag: shard drains and walker scans under the table's
\* class, the retirement task under the lifetime manager's tag.
TaskKinds(c, i) ==
    (IF NameOf(c) = "db::DBTable" THEN {"drain", "walk"} ELSE {})
    \cup (IF c = lifetime_task /\ i = LifetimeInstance THEN {"retire"} ELSE {})
    \cup (IF NameOf(c) # "db::DBTable" /\ c # lifetime_task THEN {"run"} ELSE {})

\* A task may start when its tag is idle and no running task conflicts with its class.
CanRun(tag) ==
    /\ ~IsRunning(tag)
    /\ \A u \in Tags : IsRunning(u) => ~Conflict(tag[1], u[1])

Submit(c, i, kind) ==
    /\ InFlight < MaxTasks
    /\ kind \in TaskKinds(c, i)
    /\ task_queue' = [task_queue EXCEPT ![<<c, i>>] = Append(@, kind)]
    /\ UNCHANGED <<task_names, policy, lifetime_task, running>>
    /\ UNCHANGED vrfVars
    /\ UNCHANGED <<flowVars, walkVars, moduleVars>>

Start(c, i) ==
    /\ task_queue[<<c, i>>] # <<>>
    /\ CanRun(<<c, i>>)
    /\ running' = [running EXCEPT ![<<c, i>>] = Head(task_queue[<<c, i>>])]
    /\ task_queue' = [task_queue EXCEPT ![<<c, i>>] = Tail(@)]
    /\ UNCHANGED <<task_names, policy, lifetime_task>>
    /\ UNCHANGED vrfVars
    /\ UNCHANGED <<flowVars, walkVars, moduleVars>>

\* The task returns, or panics: either way its tag is released.
Finish(c, i) ==
    /\ IsRunning(<<c, i>>)
    /\ running' = [running EXCEPT ![<<c, i>>] = "idle"]
    /\ UNCHANGED <<task_names, policy, lifetime_task, task_queue>>
    /\ UNCHANGED vrfVars
    /\ UNCHANGED <<flowVars, walkVars, moduleVars>>

\* ------------------------------------------------------------- VRF table state
Keys == {"vrf-a", "vrf-b"}
Listeners == {"L1"}
\* The VRFs whose routes are followed, and the routes a route table holds at most.
RouteKeys == {"vrf-a"}
MaxRoutes == 1
\* The names the configuration source has a routing-instance node for; the other
\* VRFs are created by the agent itself (VrfTable::CreateVrf).
CfgKeys == {"vrf-a"}
NULL == "NULL"
kInvalidIndex == -1
\* AgentRouteTableAPIS::MAX: unicast, multicast and layer2 route tables.
RouteTableMax == 3
TableTypes == 0 .. (RouteTableMax - 1)

\* Agent::fabric_vrf_name_ and Agent::link_local_vrf_name_.
fabric_vrf_name == "default-domain:default-project:ip-fabric:__default__"
link_local_vrf_name == "default-domain:default-project:__link_local__:__link_local__"

\* No VrfEntry object for the key.
NoEntry ==
    [in_part |-> FALSE, deleted |-> FALSE, id |-> kInvalidIndex,
     table_ref |-> FALSE, holders |-> 0, states |-> {},
     routes |-> [t \in TableTypes |-> 0]]

\* VrfEntry::VrfEntry: id_(kInvalidIndex), deleter_(new DeleteActor(this)); the
\* actor's VrfEntryRef table_ is the first reference on the entry.
NewVrfEntry ==
    [in_part |-> FALSE, deleted |-> FALSE, id |-> kInvalidIndex,
     table_ref |-> TRUE, holders |-> 0, states |-> {},
     routes |-> [t \in TableTypes |-> 0]]

NoEvent ==
    [ev |-> "none", key |-> NULL, oper |-> "none", pre |-> "none",
     hook |-> "none", notify |-> "none", refs |-> 0]

\* The state the operations below read and change, as one value.
World ==
    [entries |-> entries, name_tree |-> name_tree, dbtree |-> dbtree,
     db_tables |-> db_tables, index_table |-> index_table,
     lm_pending |-> lm_pending, actor_log |-> actor_log,
     delete_timer |-> delete_timer, req_queue |-> req_queue,
     cfg_node |-> cfg_node, resync |-> resync, aborted |-> aborted,
     last |-> last]

Commit(w) ==
    /\ entries' = w.entries
    /\ name_tree' = w.name_tree
    /\ dbtree' = w.dbtree
    /\ db_tables' = w.db_tables
    /\ index_table' = w.index_table
    /\ lm_pending' = w.lm_pending
    /\ actor_log' = w.actor_log
    /\ delete_timer' = w.delete_timer
    /\ req_queue' = w.req_queue
    /\ cfg_node' = w.cfg_node
    /\ resync' = w.resync
    /\ aborted' = w.aborted
    /\ last' = w.last
    /\ UNCHANGED schedVars
    /\ UNCHANGED <<flowVars, walkVars, moduleVars>>

IsDeleted(w, k) == w.entries[k].deleted
GetRefCount(w, k) ==
    (IF w.entries[k].table_ref THEN 1 ELSE 0) + w.entries[k].holders
PendingState(w, k) ==
    IF ~w.entries[k].in_part THEN "absent"
    ELSE IF w.entries[k].deleted THEN "deleted" ELSE "live"

\* ------------------------------------------------------ lookups (vrf.cc, engine)
FindVrfFromName(w, name) == IF name \in w.name_tree THEN name ELSE NULL

\* DBTablePartition::Find(key): the entry of the key in the partition map, deleted or not.
PartitionFind(w, k) == IF w.entries[k].in_part THEN k ELSE NULL

\* AgentDBTable::Find(key, ret_del).
Find(w, k, ret_del) ==
    IF w.entries[k].in_part /\ (ret_del \/ ~w.entries[k].deleted) THEN k ELSE NULL

\* (the search key that Find builds is freed by NotifyNode)
CanNotify(w, name) ==
    LET entry == Find(w, name, TRUE)
    IN  IF entry # NULL /\ IsDeleted(w, entry) THEN FALSE ELSE TRUE

\* ------------------------------------------------------------- request queue
KeyHash(k) == IF k = "vrf-a" THEN 4 ELSE 7
ShardOf(k) == KeyHash(k) % NumInstances
QueuedRequests ==
    LET RECURSIVE Sum(_)
        Sum(S) == IF S = {} THEN 0
                  ELSE LET x == CHOOSE y \in S : TRUE
                       IN  Len(req_queue[x]) + Sum(S \ {x})
    IN  Sum(Instances)

\* DBTable::Enqueue: the request goes to the queue of the key's shard.
Enqueue(w, req) ==
    [w EXCEPT !.req_queue[ShardOf(req.key)] = Append(@, req)]

\* ------------------------------------------------------------ index allocator
\* An allocator that hands out the lowest index that is free.
IndexInsert_LowestFree(w, k) ==
    LET id == CHOOSE i \in 0 .. MaxIds :
                  /\ i \notin w.index_table.used
                  /\ \A j \in 0 .. (i - 1) : j \in w.index_table.used
    IN  [w EXCEPT !.index_table = [used |-> @.used \cup {id}, next |-> @.next + 1,
                                   handed |-> Append(@.handed, id)],
                  !.entries[k].id = id]

\* IndexVector::Insert: the allocator is monotonic, an index that was freed is
\* not handed out again. handed is the history of the indices handed out.
IndexInsert(w, k) ==
    [w EXCEPT !.index_table = [used |-> @.used \cup {@.next}, next |-> @.next + 1,
                               handed |-> Append(@.handed, @.next)],
              !.entries[k].id = w.index_table.next]

FreeVrfId(w, id) == [w EXCEPT !.index_table.used = @ \ {id}]

\* ------------------------------------------------- VrfEntry and its DeleteActor
\* The log of events of an actor grows to this length at most.
MaxLog == 6
LogAppend(log, x) == IF Len(log) < MaxLog THEN Append(log, x) ELSE log

\* VrfReuse that never resyncs.
VrfReuse_Never(w, name) == w

\* VrfReuse that resyncs a node that is marked deleted as well.
VrfReuse_IgnoresDeleted(w, name) ==
    IF w.cfg_node[name] = "absent"
    THEN w
    ELSE [w EXCEPT !.resync = @ \cup {name}]

VrfReuse(w, name) ==
    IF w.cfg_node[name] = "absent" \/ w.cfg_node[name] = "deleted"
    THEN w
    ELSE [w EXCEPT !.resync = @ \cup {name}]

\* VrfEntry::~VrfEntry of an object with the given name and id.
VrfEntry_DestructorOf(w, name, id) ==
    IF id # kInvalidIndex THEN VrfReuse(FreeVrfId(w, id), name) ELSE w

\* VrfEntry::~VrfEntry, run when the engine frees the entry.
VrfEntry_Destructor(w, k) ==
    [VrfEntry_DestructorOf(w, k, w.entries[k].id) EXCEPT !.entries[k] = NoEntry]

\* VrfTable::AllocEntry: the VrfEntry a lookup by key builds to search with. It is
\* never added to the table and is destroyed when the lookup returns.
AllocEntry == NewVrfEntry
FreeSearchKey(w, name) == VrfEntry_DestructorOf(w, name, AllocEntry.id)

StartDeleteTimer(w, k) == [w EXCEPT !.delete_timer[k] = "running"]

\* Timer::Cancel: a timer that has not fired will not fire.
CancelDeleteTimer(w, k) ==
    [w EXCEPT !.delete_timer[k] = IF @ = "running" THEN "cancelled" ELSE @]

DeleteActor_MayDelete(w, k) == TRUE

DeleteActor_Shutdown(w, k) == w

\* OnZeroRefcount that leaves the name tree and the timer alone.
VrfTable_OnZeroRefcount_KeepsName(w, k) ==
    IF IsDeleted(w, k)
    THEN [w EXCEPT !.db_tables = @ \ {<<k, t>> : t \in TableTypes},
                   !.dbtree = [t \in TableTypes |-> @[t] \ {k}]]
    ELSE w

\* OnZeroRefcount that forgets the delete timer.
VrfTable_OnZeroRefcount_NoCancel(w, k) ==
    IF IsDeleted(w, k)
    THEN [w EXCEPT !.db_tables = @ \ {<<k, t>> : t \in TableTypes},
                   !.dbtree = [t \in TableTypes |-> @[t] \ {k}],
                   !.name_tree = @ \ {k}]
    ELSE w

VrfTable_OnZeroRefcount(w, k) ==
    IF IsDeleted(w, k)
    THEN CancelDeleteTimer(
             [w EXCEPT !.db_tables = @ \ {<<k, t>> : t \in TableTypes},
                       !.dbtree = [t \in TableTypes |-> @[t] \ {k}],
                       !.name_tree = @ \ {k}], k)
    ELSE w

\* The engine frees a deleted entry that nobody references and no listener has
\* state on: it leaves the partition map and is destroyed.
TryRemove(w, k) ==
    IF /\ w.entries[k].in_part
       /\ w.entries[k].deleted
       /\ GetRefCount(w, k) = 0
       /\ w.entries[k].states = {}
    THEN VrfEntry_Destructor(w, k)
    ELSE w

\* intrusive_ptr_release, after the count was lowered.
OnRelease(w, k) ==
    IF GetRefCount(w, k) = 0
    THEN TryRemove(VrfTable_OnZeroRefcount(w, k), k)
    ELSE w

\* Destroy that keeps the actor's reference on the entry.
DeleteActor_Destroy_KeepsRef(w, k) == w

\* DeleteActor::Destroy: SendObjectLog through table_, then table_ = NULL. A
\* null table_ is dereferenced by the log call: the process dies.
DeleteActor_Destroy(w, k) ==
    IF ~w.entries[k].table_ref
    THEN [w EXCEPT !.aborted = TRUE]
    ELSE OnRelease([w EXCEPT !.entries[k].table_ref = FALSE], k)

\* LifetimeActor::Delete: the actor becomes pending at its manager.
LifetimeActor_Delete(w, k) ==
    [w EXCEPT !.lm_pending = @ \cup {k},
              !.actor_log[k] = LogAppend(@, "Delete")]

\* ------------------------------------------------------------ VrfTable hooks
\* Add that looks for the duplicate after it has created the route tables and
\* taken an id.
VrfTable_Add_ChecksLate(w, k) ==
    LET w1 == IndexInsert(
                  [w EXCEPT !.db_tables = @ \cup {<<k, t>> : t \in TableTypes},
                            !.dbtree = [t \in TableTypes |-> @[t] \cup {k}]], k)
    IN  IF FindVrfFromName(w, k) # NULL
        THEN [w1 EXCEPT !.aborted = TRUE]
        ELSE [w1 EXCEPT !.name_tree = @ \cup {k}]

\* Add that leaves the name out of the name tree.
VrfTable_Add_OmitsName(w, k) ==
    IF FindVrfFromName(w, k) # NULL
    THEN [VrfEntry_DestructorOf(w, k, NewVrfEntry.id) EXCEPT !.aborted = TRUE]
    ELSE IndexInsert(
             [w EXCEPT !.entries[k] = NewVrfEntry,
                       !.actor_log[k] = <<>>,
                       !.db_tables = @ \cup {<<k, t>> : t \in TableTypes},
                       !.dbtree = [t \in TableTypes |-> @[t] \cup {k}]], k)

\* VrfTable::Add: new VrfEntry; a name that is in the name tree already: delete
\* vrf (its id is still invalid), assert(0).
VrfTable_Add(w, k) ==
    IF FindVrfFromName(w, k) # NULL
    THEN [VrfEntry_DestructorOf(w, k, NewVrfEntry.id) EXCEPT !.aborted = TRUE]
    ELSE IndexInsert(
             [w EXCEPT !.entries[k] = NewVrfEntry,
                       !.actor_log[k] = <<>>,
                       !.name_tree = @ \cup {k},
                       !.db_tables = @ \cup {<<k, t>> : t \in TableTypes},
                       !.dbtree = [t \in TableTypes |-> @[t] \cup {k}]], k)

\* OnChange that reports a change.
VrfTable_OnChange_Changed(w, k) == TRUE

\* No Change expected for VRF.
VrfTable_OnChange(w, k) == FALSE

\* Delete that takes the name out of the name tree at once.
VrfTable_Delete_ErasesName(w, k) ==
    [StartDeleteTimer(LifetimeActor_Delete(w, k), k) EXCEPT !.name_tree = @ \ {k}]

VrfTable_Delete(w, k) == StartDeleteTimer(LifetimeActor_Delete(w, k), k)

Outcome(req, pre, hook, notify) ==
    [ev |-> "request", key |-> req.key, oper |-> req.oper, pre |-> pre,
     hook |-> hook, notify |-> notify, refs |-> 0]

\* AgentDBTable::Input / DBTable::Input: the request is applied to the partition
\* through the table's hooks and the listeners are notified.
DBTable_Input(w, req) ==
    LET k == req.key
        pre == PendingState(w, k)
    IN  IF req.oper = "ADD_CHANGE"
        THEN IF PartitionFind(w, k) # NULL
             THEN IF VrfTable_OnChange(w, k)
                  THEN [w EXCEPT !.entries[k].deleted = FALSE,
                                 !.last = Outcome(req, pre, "OnChange", "CHANGE")]
                  ELSE [w EXCEPT !.last = Outcome(req, pre, "OnChange", "none")]
             ELSE LET w1 == VrfTable_Add(w, k)
                  IN  IF w1.aborted
                      THEN [w1 EXCEPT !.last = Outcome(req, pre, "Add", "none")]
                      ELSE [w1 EXCEPT !.entries[k].in_part = TRUE,
                                      !.last = Outcome(req, pre, "Add", "ADD")]
        ELSE IF PartitionFind(w, k) # NULL
             THEN LET w1 == VrfTable_Delete(w, k)
                  IN  TryRemove([w1 EXCEPT !.entries[k].deleted = TRUE,
                                           !.last = Outcome(req, pre, "Delete", "DELETE")],
                                k)
             ELSE [w EXCEPT !.last = Outcome(req, pre, "none", "none")]

\* Input that lets requests for a pending-delete entry through.
VrfTable_Input_NoDrop(w, req) == DBTable_Input(w, req)

VrfTable_Input(w0, req) ==
    LET entry == PartitionFind(w0, req.key)
        w == FreeSearchKey(w0, req.key)
    IN  IF entry # NULL /\ IsDeleted(w, entry)
        THEN [w EXCEPT !.last = Outcome(req, "deleted", "none", "none")]
        ELSE DBTable_Input(w, req)

\* The routing-instance nodes the configuration source can hold.
NodeNames == Keys \cup {fabric_vrf_name, link_local_vrf_name}

\* IFNodeToReq that has a request for every node.
IFNodeToReq_EveryNode(w, name) ==
    Enqueue(w, [oper |-> IF w.cfg_node[name] = "deleted"
                         THEN "DELETE" ELSE "ADD_CHANGE",
                key |-> name])

\* The value VrfTable::IFNodeToReq returns: false for a deleted node, and false
\* after the resync of the dependent interfaces and floating IPs.
IFNodeToReqReturn(w, name) ==
    IF w.cfg_node[name] = "deleted" THEN FALSE ELSE FALSE

\* VrfTable::IFNodeToReq, up to its Enqueue: a request for every routing
\* instance but the fabric and the link-local VRF.
IFNodeToReq(w, name) ==
    IF name # fabric_vrf_name /\ name # link_local_vrf_name
    THEN Enqueue(w, [oper |-> IF w.cfg_node[name] = "deleted"
                              THEN "DELETE" ELSE "ADD_CHANGE",
                     key |-> name])
    ELSE w

\* The config listener hands a node to the table only when CanNotify allows it.
NotifyNode(w, name) ==
    LET w1 == FreeSearchKey(w, name)
    IN  IF CanNotify(w, name) THEN IFNodeToReq(w1, name) ELSE w1

\* ------------------------------------------------------------------ actions
Alive == ~aborted
QueueRoom == QueuedRequests < MaxQueue
Quiet(w) == [w EXCEPT !.last = NoEvent]

\* VrfTable::CreateVrf
CreateVrf(name) ==
    /\ Alive /\ QueueRoom
    /\ Commit(Quiet(Enqueue(World, [oper |-> "ADD_CHANGE", key |-> name])))

\* VrfTable::DeleteVrf
DeleteVrf(name) ==
    /\ Alive /\ QueueRoom
    /\ Commit(Quiet(Enqueue(World, [oper |-> "DELETE", key |-> name])))

\* One request of a shard's queue is processed on the shard's task.
DrainShard(s) ==
    /\ Alive
    /\ req_queue[s] # <<>>
    /\ LET req == Head(req_queue[s])
       IN  /\ (req.oper = "ADD_CHANGE" /\ ~entries[req.key].in_part)
                 => index_table.next < MaxIds
           /\ Commit(VrfTable_Input([World EXCEPT !.req_queue[s] = Tail(@)], req))

\* The lifetime manager's task takes a pending actor: MayDelete, Shutdown, Destroy.
LifetimeRetire(k) ==
    /\ Alive
    /\ k \in lm_pending
    /\ IF DeleteActor_MayDelete(World, k)
       THEN LET w1 == [World EXCEPT !.lm_pending = @ \ {k},
                                    !.actor_log[k] = LogAppend(LogAppend(@, "Shutdown"),
                                                               "Destroy"),
                                    !.last = [NoEvent EXCEPT !.ev = "destroy", !.key = k,
                                                !.refs = entries[k].holders]]
            IN  Commit(DeleteActor_Destroy(DeleteActor_Shutdown(w1, k), k))
       ELSE Commit(Quiet(World))

\* VrfEntry::DeleteTimeout: assert(0).
DeleteTimeout(k) ==
    /\ Alive
    /\ delete_timer[k] = "running"
    /\ Commit(Quiet([World EXCEPT !.delete_timer[k] = "fired", !.aborted = TRUE]))

\* A holder takes a reference (VrfEntryRef) on an entry it can reach.
AcquireRef(k) ==
    /\ Alive
    /\ entries[k].in_part
    /\ GetRefCount(World, k) > 0
    /\ entries[k].holders < MaxRefs
    /\ Commit(Quiet([World EXCEPT !.entries[k].holders = @ + 1]))

\* A holder drops its reference.
ReleaseRef(k) ==
    /\ Alive
    /\ entries[k].holders > 0
    /\ Commit(OnRelease([World EXCEPT !.entries[k].holders = @ - 1,
                                      !.last = [NoEvent EXCEPT !.ev = "release",
                                                               !.key = k]], k))

\* A listener attaches its DBState to an entry it was notified of.
SetState(l, k) ==
    /\ Alive
    /\ entries[k].in_part /\ ~entries[k].deleted
    /\ l \notin entries[k].states
    /\ Commit(Quiet([World EXCEPT !.entries[k].states = @ \cup {l}]))

\* A listener detaches its DBState.
ClearState(l, k) ==
    /\ Alive
    /\ l \in entries[k].states
    /\ Commit(TryRemove([World EXCEPT !.entries[k].states = @ \ {l},
                                      !.last = [NoEvent EXCEPT !.ev = "clear_state",
                                                               !.key = k]], k))

\* The configuration source adds or updates the routing-instance node.
CfgNodeChange(name) ==
    /\ Alive /\ QueueRoom
    /\ Commit(Quiet(NotifyNode([World EXCEPT !.cfg_node[name] = "present"], name)))

\* The configuration source deletes the node.
CfgNodeDelete(name) ==
    /\ Alive /\ QueueRoom
    /\ cfg_node[name] = "present"
    /\ Commit(Quiet(NotifyNode([World EXCEPT !.cfg_node[name] = "deleted"], name)))

\* The deleted node leaves the configuration table.
CfgNodeRemove(name) ==
    /\ Alive
    /\ cfg_node[name] = "deleted"
    /\ Commit(Quiet([World EXCEPT !.cfg_node[name] = "absent",
                                  !.resync = @ \ {name}]))

\* CfgListener::NodeReSync reaches the table.
CfgNodeReSync(name) ==
    /\ Alive /\ QueueRoom
    /\ name \in resync
    /\ Commit(NotifyNode([World EXCEPT !.resync = @ \ {name},
                                       !.last = [NoEvent EXCEPT !.ev = "resync",
                                                                !.key = name]], name))

\* A route is added to a route table of a VRF (rt_table_db_[t]->Size() grows).
RouteAdd(k, t) ==
    /\ Alive
    /\ entries[k].in_part /\ ~entries[k].deleted
    /\ entries[k].routes[t] < MaxRoutes
    /\ Commit(Quiet([World EXCEPT !.entries[k].routes[t] = @ + 1]))
    /\ UNCHANGED <<schedVars, flowVars, walkVars, moduleVars>>

\* A route leaves a route table of a VRF.
RouteDelete(k, t) ==
    /\ Alive
    /\ entries[k].in_part
    /\ entries[k].routes[t] > 0
    /\ Commit(Quiet([World EXCEPT !.entries[k].routes[t] = @ - 1]))
    /\ UNCHANGED <<schedVars, flowVars, walkVars, moduleVars>>

\* The VRF table with routes coming and going in the VRFs of RouteKeys.
RouteNext ==
    \/ \E name \in RouteKeys : CreateVrf(name)
    \/ \E name \in RouteKeys : DeleteVrf(name)
    \/ \E s \in Instances : DrainShard(s)
    \/ \E k \in RouteKeys : LifetimeRetire(k)
    \/ \E k \in RouteKeys : AcquireRef(k)
    \/ \E k \in RouteKeys : ReleaseRef(k)
    \/ \E k \in RouteKeys, t \in TableTypes : RouteAdd(k, t)
    \/ \E k \in RouteKeys, t \in TableTypes : RouteDelete(k, t)

\* The configuration listener calls IFNodeToReq for a node of the configuration.
CfgNodeToReq(name) ==
    /\ Alive /\ QueueRoom
    /\ cfg_node[name] # "absent"
    /\ Commit([IFNodeToReq(World, name) EXCEPT
                  !.last = [NoEvent EXCEPT
                               !.ev = "IFNodeToReq", !.key = name,
                               !.pre = cfg_node[name],
                               !.notify = IF IFNodeToReqReturn(World, name)
                                          THEN "true" ELSE "false"]])
    /\ UNCHANGED <<schedVars, flowVars, walkVars, moduleVars>>

\* An empty VRF table, and a configuration with routing-instance nodes of every
\* name, the fabric and the link-local VRF among them, present or deleted.
NodeInit ==
    /\ entries = [k \in Keys |-> NoEntry]
    /\ name_tree = {}
    /\ dbtree = [t \in TableTypes |-> {}]
    /\ db_tables = {}
    /\ index_table = [used |-> {}, next |-> 0, handed |-> <<>>]
    /\ lm_pending = {}
    /\ actor_log = [k \in Keys |-> <<>>]
    /\ delete_timer = [k \in Keys |-> "none"]
    /\ req_queue = [s \in Instances |-> <<>>]
    /\ cfg_node \in [NodeNames -> {"absent", "present", "deleted"}]
    /\ resync = {}
    /\ aborted = FALSE
    /\ last = NoEvent

NodeNext == \E name \in NodeNames : CfgNodeToReq(name)

VrfInit ==
    /\ entries = [k \in Keys |-> NoEntry]
    /\ name_tree = {}
    /\ dbtree = [t \in TableTypes |-> {}]
    /\ db_tables = {}
    /\ index_table = [used |-> {}, next |-> 0, handed |-> <<>>]
    /\ lm_pending = {}
    /\ actor_log = [k \in Keys |-> <<>>]
    /\ delete_timer = [k \in Keys |-> "none"]
    /\ req_queue = [s \in Instances |-> <<>>]
    /\ cfg_node = [k \in Keys |-> "absent"]
    /\ resync = {}
    /\ aborted = FALSE
    /\ last = NoEvent

VrfNext ==
    \/ \E name \in Keys : CreateVrf(name)
    \/ \E name \in Keys : DeleteVrf(name)
    \/ \E s \in Instances : DrainShard(s)
    \/ \E k \in Keys : LifetimeRetire(k)
    \/ \E k \in Keys : DeleteTimeout(k)
    \/ \E k \in Keys : AcquireRef(k)
    \/ \E k \in Keys : ReleaseRef(k)
    \/ \E l \in Listeners, k \in Keys : SetState(l, k)
    \/ \E l \in Listeners, k \in Keys : ClearState(l, k)
    \/ \E name \in CfgKeys : CfgNodeChange(name)
    \/ \E name \in CfgKeys : CfgNodeDelete(name)
    \/ \E name \in CfgKeys : CfgNodeRemove(name)
    \/ \E name \in CfgKeys : CfgNodeReSync(name)

\* ------------------------------------------------ fixed-width unsigned integers
\* An unsigned integer of n bytes is the sequence of its bytes, most significant
\* first: uint64_t has 8 of them, uint32_t 4, uint16_t 2.
ByteMax == 255
ByteBits == 8
U64Len == 8
U32Len == 4
U16Len == 2
Zero(n) == [i \in 1 .. n |-> 0]
Zero64 == Zero(U64Len)

\* Conversion to a wider or narrower unsigned type: zero extension, or the low
\* bytes only.
Convert(x, n) ==
    [i \in 1 .. n |-> LET j == i - (n - Len(x)) IN IF j >= 1 THEN x[j] ELSE 0]

\* x < y and x > y of operands of the same width.
RECURSIVE LessFrom(_, _, _)
LessFrom(x, y, i) ==
    IF i > Len(x) THEN FALSE
    ELSE IF x[i] # y[i] THEN x[i] < y[i]
    ELSE LessFrom(x, y, i + 1)
Less(x, y) == LessFrom(x, y, 1)
Greater(x, y) == Less(y, x)

\* a | b and a & b of two bytes, bit by bit.
RECURSIVE OrBits(_, _, _)
OrBits(a, b, n) ==
    IF n = 0 THEN 0
    ELSE 2 * OrBits(a \div 2, b \div 2, n - 1)
         + (IF a % 2 = 1 \/ b % 2 = 1 THEN 1 ELSE 0)
RECURSIVE AndBits(_, _, _)
AndBits(a, b, n) ==
    IF n = 0 THEN 0
    ELSE 2 * AndBits(a \div 2, b \div 2, n - 1)
         + (IF a % 2 = 1 /\ b % 2 = 1 THEN 1 ELSE 0)
Or64(x, y) == [i \in 1 .. U64Len |-> OrBits(x[i], y[i], ByteBits)]
And64(x, y) == [i \in 1 .. U64Len |-> AndBits(x[i], y[i], ByteBits)]

\* x << (8 * n) of a uint64_t.
ShiftLeftBytes(x, n) ==
    [i \in 1 .. U64Len |-> IF i + n <= U64Len THEN x[i + n] ELSE 0]

\* x + y and x - y of two uint64_t, modulo 2^64.
\* The carry into byte i from the bytes below it, and the borrow from byte i.
RECURSIVE CarryInto(_, _, _)
CarryInto(x, y, i) ==
    IF i = U64Len THEN 0
    ELSE (x[i + 1] + y[i + 1] + CarryInto(x, y, i + 1)) \div (ByteMax + 1)
Add64(x, y) ==
    [i \in 1 .. U64Len |-> (x[i] + y[i] + CarryInto(x, y, i)) % (ByteMax + 1)]
RECURSIVE BorrowFrom(_, _, _)
BorrowFrom(x, y, i) ==
    IF i = U64Len THEN 0
    ELSE IF x[i + 1] - y[i + 1] - BorrowFrom(x, y, i + 1) < 0 THEN 1 ELSE 0
Sub64(x, y) ==
    [i \in 1 .. U64Len |->
        (x[i] - y[i] - BorrowFrom(x, y, i) + ByteMax + 1) % (ByteMax + 1)]

\* The unsigned value of a short byte string, and the n bytes of a value.
RECURSIVE ValueOf(_)
ValueOf(s) ==
    IF s = <<>> THEN 0
    ELSE ValueOf(SubSeq(s, 1, Len(s) - 1)) * (ByteMax + 1) + s[Len(s)]
RECURSIVE BytesOf(_, _)
BytesOf(v, n) ==
    IF n = 0 THEN <<>> ELSE BytesOf(v \div (ByteMax + 1), n - 1) \o <<v % (ByteMax + 1)>>

\* A uint32_t of the code: its four bytes.
U32(v) == BytesOf(v, U32Len)
Zero32 == Zero(U32Len)

\* x * y of two uint32_t, modulo 2^32: digit k of the product (k = 0 is the
\* lowest byte) is the sum of the digit products of weight k plus the carry.
Digit(x, i) == x[Len(x) - i]
RECURSIVE SumProd(_, _, _, _)
SumProd(x, y, k, i) ==
    IF i > k THEN 0 ELSE Digit(x, i) * Digit(y, k - i) + SumProd(x, y, k, i + 1)
RECURSIVE MulCarry(_, _, _)
MulCarry(x, y, k) ==
    IF k = 0 THEN 0
    ELSE (SumProd(x, y, k - 1, 0) + MulCarry(x, y, k - 1)) \div (ByteMax + 1)
Mul32(x, y) ==
    [i \in 1 .. U32Len |->
        (SumProd(x, y, U32Len - i, 0) + MulCarry(x, y, U32Len - i)) % (ByteMax + 1)]

\* x / y of two uint32_t, y not zero. A divisor below 2^23 divides byte by byte
\* (the remainder carried into the next byte stays below 2^31); a larger one
\* divides bit by bit.
RECURSIVE RemAfter(_, _, _)
RemAfter(x, d, i) ==
    IF i = 0 THEN 0 ELSE (RemAfter(x, d, i - 1) * (ByteMax + 1) + x[i]) % d
ShortDiv(x, d) ==
    [i \in 1 .. Len(x) |-> (RemAfter(x, d, i - 1) * (ByteMax + 1) + x[i]) \div d]
Shl1(x) ==
    [i \in 1 .. Len(x) |->
        (2 * x[i] + (IF i < Len(x) THEN x[i + 1] \div (2 ^ (ByteBits - 1)) ELSE 0))
            % (ByteMax + 1)]
BitAt(x, k) ==
    (x[((k - 1) \div ByteBits) + 1] \div (2 ^ (ByteBits - 1 - ((k - 1) % ByteBits)))) % 2
SetLow(x, b) == [x EXCEPT ![Len(x)] = @ + b]
RECURSIVE DivLoop(_, _, _, _, _)
DivLoop(n, d, k, r, q) ==
    IF k > U32Len * ByteBits THEN q
    ELSE LET r1 == SetLow(Shl1(r), BitAt(n, k))
             ge == ~Less(r1, d)
         IN  CHOOSE out \in
                 {DivLoop(n, d, k + 1, a[1], a[2]) :
                     a \in {<<IF ge THEN Sub64(r1, d) ELSE r1,
                              SetLow(Shl1(q), IF ge THEN 1 ELSE 0)>>}} : TRUE
Div32(x, y) ==
    IF y[1] = 0 /\ y[2] < 2 ^ (ByteBits - 1)
    THEN ShortDiv(x, ValueOf(y))
    ELSE Convert(DivLoop(x, Convert(y, U64Len), 1, Zero64, Zero64), U32Len)

\* The constants of the reconciliation, as uint64_t.
BytesHighMask == <<255, 255, 0, 0, 0, 0, 0, 0>>        \* 0xffff000000000000
BytesLowMask == <<0, 0, 255, 255, 255, 255, 255, 255>> \* 0x0000ffffffffffff
BytesCarry == <<0, 1, 0, 0, 0, 0, 0, 0>>               \* 0x0001000000000000
PktsHighMask == <<255, 255, 255, 0, 0, 0, 0, 0>>       \* 0xffffff0000000000
PktsLowMask == <<0, 0, 0, 255, 255, 255, 255, 255>>    \* 0x000000ffffffffff
PktsCarry == <<0, 0, 1, 0, 0, 0, 0, 0>>                \* 0x0000010000000000

\* ------------------------------------------------------- flow stats collector
\* FlowStatsCollector::GetFlowStats(const uint16_t &oflow_data, const uint32_t
\* &data): the arguments are converted to the parameter types, the overflow part
\* is shifted by sizeof(uint32_t) * 8 bits.
GetFlowStats_Shift40(oflow_data, data) ==
    Or64(ShiftLeftBytes(Convert(Convert(oflow_data, U16Len), U64Len), U32Len + 1),
         Convert(Convert(data, U32Len), U64Len))

GetFlowStats(oflow_data, data) ==
    Or64(ShiftLeftBytes(Convert(Convert(oflow_data, U16Len), U64Len), U32Len),
         Convert(Convert(data, U32Len), U64Len))

\* Reconciliation that never carries into the held high bits.
GetUpdatedFlowBytes_NoCarry(fe, k_flow_bytes) ==
    Or64(And64(BytesHighMask, fe.bytes), k_flow_bytes)

GetUpdatedFlowBytes(fe, k_flow_bytes) ==
    LET oflow_bytes == And64(BytesHighMask, fe.bytes)
        old_bytes == And64(BytesLowMask, fe.bytes)
    IN  Or64(IF Greater(old_bytes, k_flow_bytes)
             THEN Add64(oflow_bytes, BytesCarry) ELSE oflow_bytes,
             k_flow_bytes)

GetUpdatedFlowPackets(fe, k_flow_pkts) ==
    LET oflow_pkts == And64(PktsHighMask, fe.packets)
        old_pkts == And64(PktsLowMask, fe.packets)
    IN  Or64(IF Greater(old_pkts, k_flow_pkts)
             THEN Add64(oflow_pkts, PktsCarry) ELSE oflow_pkts,
             k_flow_pkts)

\* Flows of the flow table; their keys in the order of the map.
MaxFlows == 2
FlowKeys == 1 .. MaxFlows
\* The null FlowEntry pointer, the reset iteration key and the end of the map.
NullFlow == 0
\* Passes of the collector, kernel updates and clock ticks of one behaviour.
MaxRuns == 2
MaxKernelSets == 2
MaxTicks == 2
\* One tick of the clock, and the age time, in microseconds.
TickUsec == 1000
GetFlowAgeTime == 2000
\* flow_multiplier_, flow_default_interval_ and the first flow_count_per_pass_.
flow_multiplier == 2
flow_default_interval == 1000
FlowCountPerPass == 100
MinCountPerPass == 100
MaxTimerInterval == 1000
UsecPerMsec == 1000

\* The addresses of flow keys, and the uuids of a flow.
IpSamples == { "10.0.0.1", "192.168.1.1" }
FlowUuid(key) == <<"flow_uuid", key>>
EgressUuid(key) == <<"egress_uuid", key>>

NoFlow ==
    [present |-> FALSE, bytes |-> Zero64, packets |-> Zero64,
     last_modified_time |-> 0, reverse_flow |-> NullFlow, short_flow |-> FALSE,
     synced |-> FALSE,
     src |-> "10.0.0.1", dst |-> "192.168.1.1", nat |-> FALSE, local_flow |-> FALSE,
     ingress |-> FALSE, flow_uuid |-> NULL, egress_uuid |-> NULL]
\* A flow the packet path has just set up under a key.
NewFlow(key) ==
    [NoFlow EXCEPT !.present = TRUE, !.flow_uuid = FlowUuid(key),
                   !.egress_uuid = EgressUuid(key)]
NoKernelFlow ==
    [present |-> FALSE, flow_bytes |-> Zero(U32Len), flow_packets |-> Zero(U32Len),
     flow_bytes_oflow |-> Zero(U16Len), flow_packets_oflow |-> Zero(U16Len + 1)]
NoPass ==
    [ran |-> FALSE, before |-> [k \in FlowKeys |-> NoFlow],
     kernel |-> [k \in FlowKeys |-> NoKernelFlow], curr_time |-> 0,
     visited |-> {}, aged |-> {}, short_deleted |-> {},
     recon |-> [k \in FlowKeys |-> <<>>], pacing |-> <<>>, log |-> <<>>]

\* The flow uses the kernel slot of its own key.
FlowHandle(key) == key
\* FlowTableKSyncObject::GetKernelFlowEntry(flow_handle, false)
GetKernelFlowEntry(kflows, handle) == kflows[handle]

Size(flows) == Cardinality({k \in DOMAIN flows : flows[k].present})
\* The first flow of the map whose key is greater than k: ++it, upper_bound(k).
NextKey(flows, k) ==
    LET after == {j \in DOMAIN flows : j > k /\ flows[j].present}
    IN  IF after # {}
        THEN CHOOSE j \in after : \A i \in after : j <= i
        ELSE NullFlow

\* ShouldBeAged that skips aging when the kernel counters are below the stored ones.
ShouldBeAged_Regressed(entry, k_flow, curr_time) ==
    IF /\ k_flow.present
       /\ \/ Less(Convert(k_flow.flow_bytes, U64Len), entry.bytes)
          \/ Less(Convert(k_flow.flow_packets, U64Len), entry.packets)
    THEN FALSE
    ELSE ~(curr_time - entry.last_modified_time < GetFlowAgeTime)

\* ShouldBeAged without the test of the idle time.
ShouldBeAged_NoAgeTest(entry, k_flow, curr_time) ==
    ~(/\ k_flow.present
      /\ Less(entry.bytes, Convert(k_flow.flow_bytes, U64Len))
      /\ Less(entry.packets, Convert(k_flow.flow_packets, U64Len)))

\* FlowStatsCollector::ShouldBeAged; the times of the model never run backwards,
\* so the unsigned difference does not wrap.
ShouldBeAged(entry, k_flow, curr_time) ==
    IF /\ k_flow.present
       /\ Less(entry.bytes, Convert(k_flow.flow_bytes, U64Len))
       /\ Less(entry.packets, Convert(k_flow.flow_packets, U64Len))
    THEN FALSE
    ELSE ~(curr_time - entry.last_modified_time < GetFlowAgeTime)

\* DeleteRevFlow that never deletes the reverse flow.
DeleteRevFlow_ForwardOnly(flows, key, rev_flow_del) ==
    [k \in DOMAIN flows |->
        IF k = key THEN NoFlow
        ELSE IF flows[k].reverse_flow = key
             THEN [flows[k] EXCEPT !.reverse_flow = NullFlow]
             ELSE flows[k]]

\* FlowTable::DeleteRevFlow(key, rev_flow_del): the flow leaves the table, with its
\* reverse flow when asked to; no flow of the table keeps a reverse pointer to a
\* flow that left.
DeleteRevFlow(flows, key, rev_flow_del) ==
    LET gone == {key} \cup (IF rev_flow_del /\ flows[key].reverse_flow # NullFlow
                            THEN {flows[key].reverse_flow} ELSE {})
    IN  [k \in DOMAIN flows |->
            IF k \in gone THEN NoFlow
            ELSE IF flows[k].reverse_flow \in gone
                 THEN [flows[k] EXCEPT !.reverse_flow = NullFlow]
                 ELSE flows[k]]

\* to_string(uuid)
to_string(uuid) == <<"string", uuid>>

\* SourceIpOverride that looks at the NAT flag only.
SourceIpOverride_AnyDirection(flow, rev_flow, s_flow) ==
    IF flow.nat /\ rev_flow.present /\ flow.src # rev_flow.dst
    THEN [s_flow EXCEPT !.sourceip = rev_flow.dst]
    ELSE s_flow

\* FlowStatsCollector::SourceIpOverride; rev_flow is NoFlow for a null pointer.
SourceIpOverride(flow, rev_flow, s_flow) ==
    IF flow.nat /\ s_flow.direction_ing = 1 /\ rev_flow.present
    THEN IF flow.src # rev_flow.dst
         THEN [s_flow EXCEPT !.sourceip = rev_flow.dst]
         ELSE s_flow
    ELSE s_flow

\* FlowExport that sends the egress record of a local flow first.
FlowExport_EgressFirst(key, flow, rev_flow, diff_bytes, diff_pkts) ==
    LET s_flow == [ev |-> "export", flow |-> key,
                   flowuuid |-> to_string(flow.flow_uuid),
                   bytes |-> flow.bytes, packets |-> flow.packets,
                   diff_bytes |-> diff_bytes, diff_packets |-> diff_pkts,
                   sourceip |-> flow.src, destip |-> flow.dst,
                   reverse_uuid |-> IF rev_flow.present
                                    THEN to_string(rev_flow.flow_uuid) ELSE NULL,
                   direction_ing |-> NULL]
        s_ing == SourceIpOverride(flow, rev_flow, [s_flow EXCEPT !.direction_ing = 1])
    IN  IF flow.local_flow
        THEN << [s_ing EXCEPT !.direction_ing = 0,
                              !.flowuuid = to_string(flow.egress_uuid)],
                s_ing >>
        ELSE IF flow.ingress THEN << s_ing >>
             ELSE << [s_flow EXCEPT !.direction_ing = 0] >>

\* FlowStatsCollector::FlowExport: the records sent for a flow, in order. One
\* FlowDataIpv4 object is filled and sent once or twice; what is set for the
\* first record stays set for the second.
FlowExport(key, flow, rev_flow, diff_bytes, diff_pkts) ==
    LET s_flow == [ev |-> "export", flow |-> key,
                   flowuuid |-> to_string(flow.flow_uuid),
                   bytes |-> flow.bytes, packets |-> flow.packets,
                   diff_bytes |-> diff_bytes, diff_packets |-> diff_pkts,
                   sourceip |-> flow.src, destip |-> flow.dst,
                   reverse_uuid |-> IF rev_flow.present
                                    THEN to_string(rev_flow.flow_uuid) ELSE NULL,
                   direction_ing |-> NULL]
        s_ing == SourceIpOverride(flow, rev_flow, [s_flow EXCEPT !.direction_ing = 1])
    IN  IF flow.local_flow
        THEN << s_ing,
                [s_ing EXCEPT !.direction_ing = 0,
                              !.flowuuid = to_string(flow.egress_uuid)] >>
        ELSE IF flow.ingress THEN << s_ing >>
             ELSE << [s_flow EXCEPT !.direction_ing = 0] >>

\* The entry a FlowEntry pointer leads to; NoFlow for the null pointer.
Deref(flows, ptr) == IF ptr = NullFlow THEN NoFlow ELSE flows[ptr]

\* A FlowEntry that is never a short flow.
ShortFlow_Never(fe) == FALSE

\* FlowEntry::ShortFlow()
ShortFlow(fe) == fe.short_flow

\* The entry for DeleteRevFlow(key, rev_flow_del) in the log of the pass.
DeleteEvent(key, rev_flow_del) ==
    [ev |-> "delete", flow |-> key, rev_flow_del |-> rev_flow_del]

\* Lines 955-975 of Run: the stored counters of the entry take the kernel's.
Reconcile(st, entry) ==
    LET fe == st.flows[entry]
        k_flow == GetKernelFlowEntry(st.kernel, FlowHandle(entry))
        k_bytes == GetFlowStats(k_flow.flow_bytes_oflow, k_flow.flow_bytes)
        k_packets == GetFlowStats(k_flow.flow_packets_oflow, k_flow.flow_packets)
        flow_bytes == GetUpdatedFlowBytes(fe, k_bytes)
        flow_packets == GetUpdatedFlowPackets(fe, k_packets)
        diff_bytes == Sub64(flow_bytes, fe.bytes)
        diff_pkts == Sub64(flow_packets, fe.packets)
        updated == [fe EXCEPT !.bytes = flow_bytes, !.packets = flow_packets,
                              !.last_modified_time = st.curr_time, !.synced = TRUE]
    IN  IF fe.bytes # Convert(k_flow.flow_bytes, U64Len)
        THEN [st EXCEPT !.flows[entry] = updated,
                        !.log = @ \o FlowExport(entry, updated,
                                                Deref(st.flows, fe.reverse_flow),
                                                diff_bytes, diff_pkts),
                        !.recon[entry] = <<[kernel_bytes |-> k_bytes,
                                            kernel_pkts |-> k_packets,
                                            diff_bytes |-> diff_bytes,
                                            diff_pkts |-> diff_pkts]>>]
        ELSE st

\* One turn of the while loop of Run, for the entry the iterator is at.
RunEntry(st) ==
    LET entry == st.it
        fe == st.flows[entry]
        it1 == NextKey(st.flows, entry)
        k_flow == GetKernelFlowEntry(st.kernel, FlowHandle(entry))
        aged == ShouldBeAged(fe, k_flow, st.curr_time)
        reverse_flow == fe.reverse_flow
        deleted ==
            /\ aged
            /\ \/ reverse_flow = NullFlow
               \/ ShouldBeAged(st.flows[reverse_flow],
                               GetKernelFlowEntry(st.kernel, FlowHandle(reverse_flow)),
                               st.curr_time)
        st1 == [st EXCEPT !.flow_iteration_key = entry,
                          !.visited = @ \cup {entry},
                          !.aged = IF aged THEN @ \cup {entry} ELSE @]
    IN  IF deleted
        THEN LET paired == reverse_flow # NullFlow
                 it2 == IF it1 # NullFlow /\ it1 = reverse_flow
                        THEN NextKey(st.flows, it1) ELSE it1
                 count2 == IF paired THEN st.count + 1 ELSE st.count
                 broke == paired /\ U32(count2) = st.flow_count_per_pass
                 count3 == IF broke THEN count2 ELSE count2 + 1
             IN  [st1 EXCEPT !.flows = DeleteRevFlow(st.flows, entry, paired),
                             !.log = Append(@, DeleteEvent(entry, paired)),
                             !.it = it2,
                             !.count = count3,
                             !.stop = broke \/ U32(count3) = st.flow_count_per_pass]
        ELSE LET st2 == IF k_flow.present THEN Reconcile(st1, entry) ELSE st1
                 st3 == IF ShortFlow(st2.flows[entry])
                        THEN [st2 EXCEPT !.flows = DeleteRevFlow(st2.flows, entry, FALSE),
                                         !.log = Append(@, DeleteEvent(entry, FALSE)),
                                         !.short_deleted = @ \cup {entry}]
                        ELSE st2
             IN  [st3 EXCEPT !.it = it1,
                             !.count = st.count + 1,
                             !.stop = (U32(st.count + 1) = st.flow_count_per_pass)]

\* The test of the while loop of Run and one turn of it; the state stays as it
\* is once the loop has ended.
RunTurn(st) ==
    IF st.it = NullFlow \/ st.stop THEN st ELSE RunEntry(st)

\* n turns of the while loop, the first half of them before the second.
RECURSIVE RunTurns(_, _)
RunTurns(st, n) ==
    IF n = 0 THEN st
    ELSE IF n = 1 THEN RunTurn(st)
    ELSE CHOOSE r \in {RunTurns(m, n - (n \div 2)) :
                           m \in {RunTurns(st, n \div 2)}} : TRUE

\* The while loop of Run, from the entry the iterator is at: the iterator only
\* moves forward, so the loop ends within one turn per entry of the map.
RunLoop(st) == RunTurns(st, Size(st.flows))

\* std::min and std::max of two uint32_t.
Min(a, b) == IF Less(b, a) THEN b ELSE a
Max(a, b) == IF Less(a, b) THEN b ELSE a

\* Pacing that applies the ceiling of the timer interval to the default too.
Pacing_ClampsDefault(total_flows, age_time_millisec, multiplier, default_interval) ==
    LET flow_timer_interval ==
            IF total_flows # Zero32
            THEN Min(Div32(Mul32(age_time_millisec, multiplier), total_flows),
                     U32(MaxTimerInterval))
            ELSE Min(default_interval, U32(MaxTimerInterval))
    IN  [flow_timer_interval |-> flow_timer_interval,
         flow_count_per_pass |->
             IF age_time_millisec # Zero32
             THEN Max(Div32(Mul32(flow_timer_interval, total_flows), age_time_millisec),
                      U32(MinCountPerPass))
             ELSE U32(MinCountPerPass)]

\* Lines 1001-1017 of Run: the timer interval and the count of the next pass,
\* in uint32_t arithmetic.
Pacing(total_flows, age_time_millisec, multiplier, default_interval) ==
    LET flow_timer_interval ==
            IF total_flows # Zero32
            THEN Min(Div32(Mul32(age_time_millisec, multiplier), total_flows),
                     U32(MaxTimerInterval))
            ELSE default_interval
    IN  [flow_timer_interval |-> flow_timer_interval,
         flow_count_per_pass |->
             IF age_time_millisec # Zero32
             THEN Max(Div32(Mul32(flow_timer_interval, total_flows), age_time_millisec),
                      U32(MinCountPerPass))
             ELSE U32(MinCountPerPass)]

\* key_updation_reqd cleared at the end of the map only: the key is reset when
\* the pass used up its count with entries left ahead of the iterator.
KeyUpdationReqd_AtEndOnly(count, flow_count_per_pass, it) ==
    U32(count) = flow_count_per_pass /\ it # NullFlow

\* key_updation_reqd that is never cleared: the key is reset after every pass.
KeyUpdationReqd_Always(count, flow_count_per_pass, it) == TRUE

\* Lines 897 and 988-992 of Run: key_updation_reqd stays true unless the pass
\* used up its count with entries left ahead of the iterator.
KeyUpdationReqd(count, flow_count_per_pass, it) ==
    ~(U32(count) = flow_count_per_pass /\ it # NullFlow)

\* What Run does after its loop: the iteration key, then the pacing.
RunEnd(coll, flows, kflows, curr_time, st) ==
    LET key_updation_reqd == KeyUpdationReqd(st.count, coll.flow_count_per_pass, st.it)
        inputs == [total_flows |-> U32(Size(st.flows)),
                   age_time_millisec |-> U32(GetFlowAgeTime \div UsecPerMsec),
                   multiplier |-> U32(flow_multiplier),
                   default_interval |-> U32(flow_default_interval)]
    IN  CHOOSE r \in
            {[collector |->
                  [run_counter |-> coll.run_counter + 1,
                   flow_iteration_key |-> IF key_updation_reqd THEN NullFlow
                                          ELSE st.flow_iteration_key,
                   flow_count_per_pass |-> paced.flow_count_per_pass,
                   flow_timer_interval |-> paced.flow_timer_interval],
              flows |-> st.flows,
              pass |-> [ran |-> TRUE, before |-> flows, kernel |-> kflows,
                        curr_time |-> curr_time, visited |-> st.visited,
                        aged |-> st.aged, short_deleted |-> st.short_deleted,
                        recon |-> st.recon, pacing |-> <<inputs>>,
                        log |-> st.log]] :
                paced \in {Pacing(inputs.total_flows, inputs.age_time_millisec,
                                  inputs.multiplier, inputs.default_interval)}} : TRUE

\* FlowStatsCollector::Run, as a function of the collector, the tables and the time.
RunPass(coll, flows, kflows, curr_time) ==
    LET first == NextKey(flows, coll.flow_iteration_key)
        st0 == [flows |-> flows, kernel |-> kflows, curr_time |-> curr_time,
                flow_iteration_key |-> coll.flow_iteration_key,
                flow_count_per_pass |-> coll.flow_count_per_pass,
                it |-> IF first = NullFlow THEN NextKey(flows, NullFlow) ELSE first,
                count |-> 0, stop |-> FALSE,
                visited |-> {}, aged |-> {}, short_deleted |-> {},
                recon |-> [k \in DOMAIN flows |-> <<>>], log |-> <<>>]
    IN  IF Size(flows) = 0
        THEN [collector |-> [coll EXCEPT !.run_counter = @ + 1],
              flows |-> flows,
              pass |-> [NoPass EXCEPT !.ran = TRUE, !.curr_time = curr_time]]
        ELSE CHOOSE r \in {RunEnd(coll, flows, kflows, curr_time, st) :
                               st \in {RunLoop(n) : n \in {st0}}} : TRUE

\* The stored counters the flows of the first state have: nothing counted yet,
\* the low bits about to wrap, the held high bits about to wrap.
StoredSamples ==
    { [bytes |-> Zero64, packets |-> Zero64],
      [bytes |-> <<0, 0, 255, 255, 255, 255, 255, 0>>,
       packets |-> <<0, 0, 0, 255, 255, 255, 255, 0>>],
      [bytes |-> <<255, 255, 0, 0, 0, 0, 1, 0>>,
       packets |-> <<0, 0, 1, 0, 0, 0, 0, 5>>] }

\* The records the kernel is seen to hold for a flow.
KernelSamples ==
    { [present |-> TRUE, flow_bytes |-> <<0, 0, 0, 16>>, flow_packets |-> <<0, 0, 0, 16>>,
       flow_bytes_oflow |-> <<0, 0>>, flow_packets_oflow |-> <<0, 0, 0>>],
      [present |-> TRUE, flow_bytes |-> <<0, 0, 0, 5>>, flow_packets |-> <<0, 0, 0, 0>>,
       flow_bytes_oflow |-> <<0, 1>>, flow_packets_oflow |-> <<1, 1, 0>>],
      [present |-> TRUE, flow_bytes |-> <<255, 255, 255, 255>>,
       flow_packets |-> <<255, 255, 255, 255>>,
       flow_bytes_oflow |-> <<255, 255>>, flow_packets_oflow |-> <<0, 0, 255>>] }

\* Flows are each other's reverse, or have none.
Pairings ==
    { r \in [FlowKeys -> FlowKeys \cup {NullFlow}] :
        \A k \in FlowKeys :
            /\ r[k] # k
            /\ r[k] # NullFlow => r[r[k]] = k }

NewCollector ==
    [run_counter |-> 0, flow_iteration_key |-> NullFlow,
     flow_count_per_pass |-> U32(FlowCountPerPass),
     flow_timer_interval |-> U32(flow_default_interval)]

\* UTCTimestampUsec()
Now == flow_env.ticks * TickUsec

\* The kernel changes the record of a flow slot.
KernelSet(h, rec) ==
    /\ flow_env.kernel_sets < MaxKernelSets
    /\ rec # kernel_flows[h]
    /\ kernel_flows' = [kernel_flows EXCEPT ![h] = rec]
    /\ flow_table' = [flow_table EXCEPT ![h].synced = FALSE]
    /\ flow_env' = [flow_env EXCEPT !.kernel_sets = @ + 1]
    /\ UNCHANGED <<collector, pass>>
    /\ UNCHANGED <<schedVars, vrfVars, walkVars, moduleVars>>

\* Time passes.
Tick ==
    /\ flow_env.ticks < MaxTicks
    /\ flow_env' = [flow_env EXCEPT !.ticks = @ + 1]
    /\ UNCHANGED <<flow_table, kernel_flows, collector, pass>>
    /\ UNCHANGED <<schedVars, vrfVars, walkVars, moduleVars>>

\* The timer of the collector fires: FlowStatsCollector::Run.
Run ==
    /\ collector.run_counter < MaxRuns
    /\ \E r \in {RunPass(collector, flow_table, kernel_flows, Now)} :
           /\ collector' = r.collector
           /\ flow_table' = r.flows
           /\ pass' = r.pass
    /\ UNCHANGED <<kernel_flows, flow_env>>
    /\ UNCHANGED <<schedVars, vrfVars, walkVars, moduleVars>>

\* The collector before its first pass, with an empty flow table.
FlowInit ==
    /\ flow_table = [k \in FlowKeys |-> NoFlow]
    /\ kernel_flows = [k \in FlowKeys |-> NoKernelFlow]
    /\ collector = NewCollector
    /\ flow_env = [ticks |-> 0, kernel_sets |-> 0]
    /\ pass = NoPass

\* The collector before its first pass, with the flows the packet path has set up.
FlowTableInit ==
    /\ \E r \in Pairings, short \in [FlowKeys -> BOOLEAN],
          stored \in [FlowKeys -> StoredSamples] :
           flow_table = [k \in FlowKeys |->
                           [NewFlow(k) EXCEPT !.bytes = stored[k].bytes,
                                              !.packets = stored[k].packets,
                                              !.reverse_flow = r[k],
                                              !.short_flow = short[k]]]
    /\ kernel_flows = [k \in FlowKeys |-> NoKernelFlow]
    /\ collector = NewCollector
    /\ flow_env = [ticks |-> 0, kernel_sets |-> 0]
    /\ pass = NoPass

\* The flow table removes a flow on its own account (the flow is evicted, or its
\* interface or route went away), alone or with its reverse flow.
FlowDelete(key, rev_flow_del) ==
    /\ flow_table[key].present
    /\ flow_table' = DeleteRevFlow(flow_table, key, rev_flow_del)
    /\ UNCHANGED <<kernel_flows, collector, flow_env, pass>>
    /\ UNCHANGED <<schedVars, vrfVars, walkVars, moduleVars>>

\* The counts of entries per pass a collector is constructed with.
PassCounts == { U32(1), U32(2), U32(FlowCountPerPass) }

\* A collector before its first pass, constructed with one of the pass counts,
\* and the flows the packet path has set up; the kernel holds no record.
PassInit ==
    /\ \E r \in Pairings, short \in [FlowKeys -> BOOLEAN] :
           flow_table = [k \in FlowKeys |->
                           [NewFlow(k) EXCEPT !.reverse_flow = r[k],
                                              !.short_flow = short[k]]]
    /\ kernel_flows = [k \in FlowKeys |-> NoKernelFlow]
    /\ \E n \in PassCounts : collector = [NewCollector EXCEPT !.flow_count_per_pass = n]
    /\ flow_env = [ticks |-> 0, kernel_sets |-> 0]
    /\ pass = NoPass

\* What the export of a flow depends on: NAT, local flow, ingress, and the
\* addresses of its key.
ExportAttrs ==
    [nat : BOOLEAN, local_flow : BOOLEAN, ingress : BOOLEAN,
     src : IpSamples, dst : IpSamples]

\* A collector before its first pass and flows of every kind of export; the
\* kernel holds no record yet.
ExportInit ==
    /\ \E r \in Pairings, a \in [FlowKeys -> ExportAttrs] :
           flow_table = [k \in FlowKeys |->
                           [NewFlow(k) EXCEPT !.reverse_flow = r[k],
                                              !.nat = a[k].nat,
                                              !.local_flow = a[k].local_flow,
                                              !.ingress = a[k].ingress,
                                              !.src = a[k].src,
                                              !.dst = a[k].dst]]
    /\ kernel_flows = [k \in FlowKeys |-> NoKernelFlow]
    /\ collector = NewCollector
    /\ flow_env = [ticks |-> 0, kernel_sets |-> 0]
    /\ pass = NoPass

\* The kernel counts traffic of a flow, and the collector makes its passes.
ExportNext ==
    \/ \E h \in FlowKeys :
           KernelSet(h, [NoKernelFlow EXCEPT !.present = TRUE,
                                             !.flow_bytes = U32(ByteBits),
                                             !.flow_packets = U32(1)])
    \/ Run

PassNext ==
    \/ \E key \in FlowKeys, rev_flow_del \in BOOLEAN : FlowDelete(key, rev_flow_del)
    \/ Tick
    \/ Run

\* The values the pacing is computed for: total_flows, the age time in
\* milliseconds, flow_multiplier_ and flow_default_interval_.
PacingSamples ==
    { Zero32, U32(1), U32(3), U32(100), U32(1000), U32(2000),
      <<0, 1, 0, 0>>, <<128, 0, 0, 0>>, <<255, 255, 255, 255>> }

\* The end of a pass of a collector configured with an age time, a multiplier
\* and a default interval, over a table left with total_flows flows.
Pace(total_flows, age_time_millisec, multiplier, default_interval) ==
    /\ ~pass.ran
    /\ \E paced \in {Pacing(total_flows, age_time_millisec, multiplier,
                             default_interval)} :
           collector' = [collector EXCEPT
                            !.run_counter = @ + 1,
                            !.flow_count_per_pass = paced.flow_count_per_pass,
                            !.flow_timer_interval = paced.flow_timer_interval]
    /\ pass' = [NoPass EXCEPT
                   !.ran = TRUE,
                   !.pacing = <<[total_flows |-> total_flows,
                                 age_time_millisec |-> age_time_millisec,
                                 multiplier |-> multiplier,
                                 default_interval |-> default_interval]>>]
    /\ UNCHANGED <<flow_table, kernel_flows, flow_env>>
    /\ UNCHANGED <<schedVars, vrfVars, walkVars, moduleVars>>

PacingNext ==
    \E total_flows \in PacingSamples, age_time_millisec \in PacingSamples,
       multiplier \in PacingSamples, default_interval \in PacingSamples :
        Pace(total_flows, age_time_millisec, multiplier, default_interval)

FlowNext ==
    \/ \E h \in FlowKeys, rec \in KernelSamples : KernelSet(h, rec)
    \/ Tick
    \/ Run

\* ================================================================ table walks
\* Peer route deletion and VRF notification: the walks VrfTable and VrfEntry
\* start on behalf of a BGP peer, and their done callbacks.

\* The top-level walks started in a behaviour, and the VRF entries of the table.
MaxWalkStarts == 2
NumWalkVrfs == 2
WalkVrfs == 1 .. NumWalkVrfs
\* Enough walk ids for every walk the top-level walks can start.
WalkIds == 0 .. (MaxWalkStarts * (1 + NumWalkVrfs * RouteTableMax) - 1)

\* DBTableWalker::kInvalidWalkerId.
kInvalidWalkerId == -1

\* The done callbacks of the peer route-deletion walks.
DelPeerDoneFns == {"VrfTable::DelPeerDone", "VrfEntry::DelPeerDone"}

\* A walker slot no walk has used.
NoWalk ==
    [state |-> "free", done_fn |-> "none", vrf |-> 0, table_type |-> 0,
     pos |-> 1, cancel |-> FALSE, done_calls |-> 0]

\* The peer before any walk: no walk id held, no walk counted.
NewPeer ==
    [vrf_uc_walkid |-> kInvalidWalkerId, vrf_mc_walkid |-> kInvalidWalkerId,
     num_walks |-> 0, cleanups |-> 0, done_cbs |-> 0]

\* DBTableWalker::WalkTable: a new walk under the next walk id. Walks over the
\* VRF table have the VRF entries as their entries; the entries of a route table
\* are not followed, so a route-table walk starts past its last entry.
WalkTable(w, done_fn, vrf, table_type) ==
    [walker |-> [next |-> w.next + 1,
                 walks |-> [w.walks EXCEPT ![w.next] =
                               [NoWalk EXCEPT !.state = "running",
                                              !.done_fn = done_fn,
                                              !.vrf = vrf,
                                              !.table_type = table_type,
                                              !.pos = IF vrf = 0 THEN 1
                                                      ELSE NumWalkVrfs + 1]]],
     id |-> w.next]

\* A cancellation that forgets the walk: its done_fn is never invoked.
WalkCancel_Drops(w, id) ==
    IF id \in WalkIds /\ w.walks[id].state = "running"
    THEN [w EXCEPT !.walks[id].state = "done", !.walks[id].cancel = TRUE]
    ELSE w

\* DBTableWalker::WalkCancel: sets the cancel flag of a walk that is under way;
\* the walk stops at its next entry boundary and its done_fn is still invoked.
WalkCancel(w, id) ==
    IF id \in WalkIds /\ w.walks[id].state = "running"
    THEN [w EXCEPT !.walks[id].cancel = TRUE]
    ELSE w

\* Peer::IncrementWalks and Peer::DecrementWalks. The done callbacks make the
\* decrements; no call of IncrementWalks is in the functions that start the
\* walks, and Peer is kept elsewhere: the peer is taken to count a deletion walk
\* when the walk is started, the scheme under which the decrements balance.
IncrementWalks(p) == [p EXCEPT !.num_walks = @ + 1]
DecrementWalks(p) == [p EXCEPT !.num_walks = @ - 1]

\* The loop of VrfEntry::DelPeerRoutes over the route tables of a VRF, from
\* table type route_tables on: the previous walk of the table is cancelled and a
\* new one started, its id kept in state->ucwalkid_[route_tables]; the peer
\* counts it.
RECURSIVE RouteTableWalks(_, _, _)
RouteTableWalks(ws, vrf, route_tables) ==
    IF route_tables >= RouteTableMax THEN ws
    ELSE LET prev == ws.vrf_export[vrf].ucwalkid_[route_tables]
             cancelled == IF prev # kInvalidWalkerId
                          THEN WalkCancel(ws.walker, prev) ELSE ws.walker
             started == WalkTable(cancelled, "VrfEntry::DelPeerDone", vrf, route_tables)
         IN  RouteTableWalks(
                 [walker |-> started.walker,
                  peer |-> IncrementWalks(ws.peer),
                  vrf_export |-> [ws.vrf_export EXCEPT
                                     ![vrf].ucwalkid_[route_tables] = started.id]],
                 vrf, route_tables + 1)

\* VrfEntry::DelPeerRoutes, the entry function of the outer walk, for a BGP peer:
\* nothing for a deleted entry or one without export state.
VrfEntryDelPeerRoutes(ws, vrf) ==
    IF ws.vrf_export[vrf].deleted THEN ws
    ELSE IF ~ws.vrf_export[vrf].state THEN ws
    ELSE RouteTableWalks(ws, vrf, 0)

\* VrfEntry::DelPeerDone: the done callback of a route-table walk.
VrfEntryDelPeerDone(ws, id) ==
    LET wk == ws.walker.walks[id]
        decremented == DecrementWalks(ws.peer)
    IN  [ws EXCEPT !.vrf_export[wk.vrf].ucwalkid_[wk.table_type] = kInvalidWalkerId,
                   !.peer = IF decremented.num_walks = 0
                            THEN [decremented EXCEPT !.cleanups = @ + 1]
                            ELSE decremented]

\* A done callback of the outer walk that leaves the peer's walk counter alone.
VrfTableDelPeerDone_NoDecrement(ws, id) ==
    [ws EXCEPT !.peer.vrf_uc_walkid = kInvalidWalkerId,
               !.peer.done_cbs = @ + 1]

\* VrfTable::DelPeerDone: the done callback of the outer walk; cb() is counted.
VrfTableDelPeerDone(ws, id) ==
    [ws EXCEPT !.peer = [DecrementWalks(ws.peer) EXCEPT
                            !.vrf_uc_walkid = kInvalidWalkerId,
                            !.done_cbs = @ + 1]]

\* VrfTable::VrfNotifyDone and VrfTable::VrfNotifyMulticastDone.
VrfNotifyDone(ws, id) ==
    [ws EXCEPT !.peer.vrf_uc_walkid = kInvalidWalkerId]
VrfNotifyMulticastDone(ws, id) ==
    [ws EXCEPT !.peer.vrf_mc_walkid = kInvalidWalkerId]

\* The walker invokes the done_fn of a walk.
DoneFn(ws, id) ==
    LET fn == ws.walker.walks[id].done_fn
    IN  IF fn = "VrfTable::DelPeerDone" THEN VrfTableDelPeerDone(ws, id)
        ELSE IF fn = "VrfEntry::DelPeerDone" THEN VrfEntryDelPeerDone(ws, id)
        ELSE IF fn = "VrfTable::VrfNotifyDone" THEN VrfNotifyDone(ws, id)
        ELSE VrfNotifyMulticastDone(ws, id)

\* The walker invokes the entry function of a walk over the VRF table on one VRF
\* entry. The notification walks start no walk of their own here.
EntryFn(ws, id, vrf) ==
    IF ws.walker.walks[id].done_fn = "VrfTable::DelPeerDone"
    THEN VrfEntryDelPeerRoutes(ws, vrf)
    ELSE ws

WalkState == [walker |-> walker, peer |-> peer, vrf_export |-> vrf_export]

SetWalkState(ws) ==
    /\ walker' = ws.walker
    /\ peer' = ws.peer
    /\ vrf_export' = ws.vrf_export

\* VrfTable::DelPeerRoutes: the previous walk held in the peer's unicast walk id
\* is cancelled, the outer walk started and its id kept; the peer counts it.
VrfTableDelPeerRoutes ==
    /\ walk_env.starts < MaxWalkStarts
    /\ LET cancelled == IF peer.vrf_uc_walkid # kInvalidWalkerId
                        THEN WalkCancel(walker, peer.vrf_uc_walkid) ELSE walker
           started == WalkTable(cancelled, "VrfTable::DelPeerDone", 0, 0)
       IN  /\ walker' = started.walker
           /\ peer' = [IncrementWalks(peer) EXCEPT !.vrf_uc_walkid = started.id]
    /\ walk_env' = [walk_env EXCEPT !.starts = @ + 1]
    /\ UNCHANGED vrf_export
    /\ UNCHANGED <<schedVars, vrfVars, flowVars, moduleVars>>

\* VrfTable::VrfTableWalkerNotify.
VrfTableWalkerNotify ==
    /\ walk_env.starts < MaxWalkStarts
    /\ LET cancelled == IF peer.vrf_uc_walkid # kInvalidWalkerId
                        THEN WalkCancel(walker, peer.vrf_uc_walkid) ELSE walker
           started == WalkTable(cancelled, "VrfTable::VrfNotifyDone", 0, 0)
       IN  /\ walker' = started.walker
           /\ peer' = [peer EXCEPT !.vrf_uc_walkid = started.id]
    /\ walk_env' = [walk_env EXCEPT !.starts = @ + 1]
    /\ UNCHANGED vrf_export
    /\ UNCHANGED <<schedVars, vrfVars, flowVars, moduleVars>>

\* VrfTable::VrfTableWalkerMulticastNotify.
VrfTableWalkerMulticastNotify(associate) ==
    /\ walk_env.starts < MaxWalkStarts
    /\ LET cancelled == IF peer.vrf_mc_walkid # kInvalidWalkerId
                        THEN WalkCancel(walker, peer.vrf_mc_walkid) ELSE walker
           started == WalkTable(cancelled, "VrfTable::VrfNotifyMulticastDone", 0, 0)
       IN  /\ walker' = started.walker
           /\ peer' = [peer EXCEPT !.vrf_mc_walkid = started.id]
    /\ walk_env' = [walk_env EXCEPT !.starts = @ + 1]
    /\ UNCHANGED vrf_export
    /\ UNCHANGED <<schedVars, vrfVars, flowVars, moduleVars>>

\* The walker task of a walk visits its next entry: the entry function runs on it.
WalkEntry(id) ==
    /\ walker.walks[id].state = "running"
    /\ ~walker.walks[id].cancel
    /\ walker.walks[id].pos <= NumWalkVrfs
    /\ LET ws == EntryFn(WalkState, id, walker.walks[id].pos)
       IN  SetWalkState([ws EXCEPT !.walker.walks[id].pos = @ + 1])
    /\ UNCHANGED walk_env
    /\ UNCHANGED <<schedVars, vrfVars, flowVars, moduleVars>>

\* The walker task of a walk finds the walk cancelled, or past its last entry:
\* the walk ends and its done_fn is invoked.
WalkDone(id) ==
    /\ walker.walks[id].state = "running"
    /\ walker.walks[id].cancel \/ walker.walks[id].pos > NumWalkVrfs
    /\ LET ws == DoneFn(WalkState, id)
       IN  SetWalkState([ws EXCEPT !.walker.walks[id].state = "done",
                                   !.walker.walks[id].done_calls = @ + 1])
    /\ UNCHANGED walk_env
    /\ UNCHANGED <<schedVars, vrfVars, flowVars, moduleVars>>

\* No walk has been started, and none will be.
NoWalks ==
    /\ walker = [next |-> 0, walks |-> [id \in WalkIds |-> NoWalk]]
    /\ peer = NewPeer
    /\ vrf_export = [v \in WalkVrfs |->
                        [deleted |-> FALSE, state |-> FALSE,
                         ucwalkid_ |-> [t \in TableTypes |-> kInvalidWalkerId]]]
    /\ walk_env = [starts |-> MaxWalkStarts]

\* A BGP peer before its first walk, over VRF entries of every kind: deleted or
\* not, with or without the export state of the peer.
WalkInit ==
    /\ walker = [next |-> 0, walks |-> [id \in WalkIds |-> NoWalk]]
    /\ peer = NewPeer
    /\ \E deleted \in [WalkVrfs -> BOOLEAN], state \in [WalkVrfs -> BOOLEAN] :
           vrf_export = [v \in WalkVrfs |->
                            [deleted |-> deleted[v], state |-> state[v],
                             ucwalkid_ |-> [t \in TableTypes |-> kInvalidWalkerId]]]
    /\ walk_env = [starts |-> 0]

WalkNext ==
    \/ VrfTableDelPeerRoutes
    \/ VrfTableWalkerNotify
    \/ \E associate \in BOOLEAN : VrfTableWalkerMulticastNotify(associate)
    \/ \E id \in WalkIds : WalkEntry(id)
    \/ \E id \in WalkIds : WalkDone(id)

\* ========================================================== module creation
\* Agent::CreateModules: the Sandesh generator and its connection to the
\* collector.

\* The addresses and ports the parameters of the agent are drawn from; an IPv4
\* address is its to_ulong() value, 32 bits wide.
AddrSamples ==
    { Zero32, <<0, 0, 0, 1>>, <<1, 0, 0, 0>>, <<10, 0, 0, 1>>, <<127, 0, 0, 1>>,
      <<255, 255, 255, 255>> }
PortSamples == {0, 1, 80, 8086, 65535}
DssSamples == {"", "10.1.1.1"}

\* C's !x on an unsigned integer, given by its bytes: 1 for zero, 0 for
\* anything else.
LogicalNot(x) == IF \A i \in DOMAIN x : x[i] = 0 THEN 1 ELSE 0

\* The test in front of Sandesh::ConnectToCollector:
\* collector_port() != 0 && !collector().to_ulong() != 0.
CollectorConfigured(collector_port, collector_addr) ==
    collector_port # 0 /\ LogicalNot(collector_addr) # 0

\* The agent with its parameters read, before CreateModules.
NewModules(dss_addr, collector_addr, collector_port) ==
    [dss_addr |-> dss_addr, collector_addr |-> collector_addr,
     collector_port |-> collector_port,
     created |-> FALSE, init_generator |-> FALSE, connect |-> <<>>]

\* Agent::CreateModules, up to the creation of the modules.
CreateModules ==
    /\ ~agent_modules.created
    /\ agent_modules' =
          IF agent_modules.dss_addr = ""
          THEN [agent_modules EXCEPT
                   !.created = TRUE,
                   !.init_generator = TRUE,
                   !.connect = IF CollectorConfigured(agent_modules.collector_port,
                                                      agent_modules.collector_addr)
                               THEN Append(@, <<agent_modules.collector_addr,
                                                agent_modules.collector_port>>)
                               ELSE @]
          ELSE [agent_modules EXCEPT !.created = TRUE]
    /\ UNCHANGED <<schedVars, vrfVars, flowVars, walkVars>>

\* An agent whose modules are not looked at.
NoModules == agent_modules = NewModules("", Zero32, 0)

\* The agent before CreateModules, over the values of its parameters.
ModulesInit ==
    \E dss_addr \in DssSamples, collector_addr \in AddrSamples, collector_port \in PortSamples :
        agent_modules = NewModules(dss_addr, collector_addr, collector_port)

ModulesNext == CreateModules

\* ------------------------------------------------------- scheduler specification
SchedInit ==
    /\ task_names = AgentConstructed.names
    /\ policy = AgentConstructed.policy
    /\ lifetime_task = AgentConstructed.lifetime_task
    /\ task_queue = [t \in (0 .. (Len(AgentConstructed.names) - 1)) \X Instances |-> <<>>]
    /\ running = [t \in (0 .. (Len(AgentConstructed.names) - 1)) \X Instances |-> "idle"]

SchedNext ==
    \E c \in ClassIds, i \in Instances :
        \/ \E kind \in {"drain", "walk", "retire", "run"} : Submit(c, i, kind)
        \/ Start(c, i)
        \/ Finish(c, i)

\* The agent after construction: policy installed, VRF table created and empty.
Init == SchedInit /\ VrfInit /\ FlowInit /\ NoWalks /\ NoModules

SchedSpec == Init /\ [][SchedNext]_vars

\* ------------------------------------------------------- VRF table specification
VrfSpec == Init /\ [][VrfNext]_vars

\* ------------------------------------------------- flow collector specification
\* The agent with flows in its flow table.
FlowSpecInit == SchedInit /\ VrfInit /\ FlowTableInit /\ NoWalks /\ NoModules

FlowSpec == FlowSpecInit /\ [][FlowNext]_vars

\* The passes of the collector over a table that flows leave on their own.
PassSpecInit == SchedInit /\ VrfInit /\ PassInit /\ NoWalks /\ NoModules

PassSpec == PassSpecInit /\ [][PassNext]_vars

\* The exports of the collector, over flows of every kind.
ExportSpecInit == SchedInit /\ VrfInit /\ ExportInit /\ NoWalks /\ NoModules

ExportSpec == ExportSpecInit /\ [][ExportNext]_vars

\* The pacing of the collector alone, over the values of its inputs.
PacingSpec == Init /\ [][PacingNext]_vars

\* ------------------------------------------------------ table walk specification
\* The walks of a BGP peer over the VRF table and the route tables.
WalkSpecInit == SchedInit /\ VrfInit /\ FlowInit /\ WalkInit /\ NoModules

WalkSpec == WalkSpecInit /\ [][WalkNext]_vars

\* The scheduler runs the walker tasks it holds: while a walk can take a step,
\* steps of walks are taken.
WalkTask == \E id \in WalkIds : WalkEntry(id) \/ WalkDone(id)

WalkFairSpec == WalkSpec /\ WF_vars(WalkTask)

\* --------------------------------------------- module creation specification
\* The creation of the modules, over the parameters of the agent.
ModulesSpecInit == SchedInit /\ VrfInit /\ FlowInit /\ NoWalks /\ ModulesInit

ModulesSpec == ModulesSpecInit /\ [][ModulesNext]_vars

\* ------------------------------------------- configuration node specification
\* IFNodeToReq over the routing-instance nodes of the configuration.
NodeSpecInit == SchedInit /\ NodeInit /\ FlowInit /\ NoWalks /\ NoModules

NodeSpec == NodeSpecInit /\ [][NodeNext]_vars

\* ------------------------------------------------------- route specification
\* The VRF table with routes in the route tables of its entries.
RouteSpec == Init /\ [][RouteNext]_vars

\* =========================================================== claims, scheduler
RunningClass(name) == \E i \in Instances : IsRunning(<<IdOf(name), i>>)
WaitingClass(name) == \E i \in Instances : task_queue[<<IdOf(name), i>>] # <<>>

\* The pairs the installed policy lists in one direction only.
OneDirectionPairs ==
    { <<"Agent::KSync", "Agent::FlowHandler">>,
      <<"xmpp::StateMachine", "db::DBTable">>,
      <<"sandesh::RecvQueue", "Agent::FlowHandler">> }
    \cup { <<"bgp::Config", n>> : n \in Range(xmpp_config_exclude_list) }

\* C1: exclusion is symmetric at run time. No two running tasks have classes of
\* which one's registered policy lists the other, in either direction; in
\* particular the pairs listed in one direction only (KSync -> FlowHandler,
\* xmpp::StateMachine -> DBTable, RecvQueue -> FlowHandler, every entry of
\* bgp::Config) never run together.
C1_SymmetricExclusion ==
    /\ \A t \in Tags, u \in Tags :
          (t # u /\ IsRunning(t) /\ IsRunning(u)) => ~Conflict(t[1], u[1])
    /\ \A pr \in OneDirectionPairs : ~(RunningClass(pr[1]) /\ RunningClass(pr[2]))

\* A flow handler task waits in its queue while a KSync task runs: the flow
\* handler's own policy does not list KSync.
C1_Witness ==
    /\ RunningClass("Agent::KSync")
    /\ WaitingClass("Agent::FlowHandler")
    /\ ~Excludes(IdOf("Agent::FlowHandler"), IdOf("Agent::KSync"))
    /\ \E t \in Tags, u \in Tags : t[1] # u[1] /\ IsRunning(t) /\ IsRunning(u)

\* The policy table of the design (section 4.1), in the task names of the code.
PolicyTable ==
    [n \in {"db::DBTable", "Agent::FlowHandler", "sandesh::RecvQueue",
            "bgp::Config", "xmpp::StateMachine", "Agent::KSync"} |->
       CASE n = "db::DBTable" ->
              {"Agent::FlowHandler", "Agent::Services", "Agent::StatsCollector",
               "sandesh::RecvQueue", "io::ReaderTask", "Agent::Uve", "Agent::KSync"}
         [] n = "Agent::FlowHandler" -> {"Agent::StatsCollector", "io::ReaderTask"}
         [] n = "sandesh::RecvQueue" ->
              {"db::DBTable", "Agent::FlowHandler", "Agent::Services",
               "Agent::StatsCollector", "io::ReaderTask"}
         [] n = "bgp::Config" ->
              {"Agent::FlowHandler", "Agent::Services", "Agent::StatsCollector",
               "sandesh::RecvQueue", "io::ReaderTask", "xmpp::StateMachine",
               "db::DBTable"}
         [] n = "xmpp::StateMachine" -> {"io::ReaderTask", "db::DBTable"}
         [] n = "Agent::KSync" ->
              {"Agent::FlowHandler", "Agent::StatsCollector", "db::DBTable"}]

\* C2: the exclusion set registered for each of the six classes is exactly the
\* one of the policy table, and no other class has a policy.
C2_PolicyExact ==
    /\ {NameOf(id) : id \in DOMAIN policy} = DOMAIN PolicyTable
    /\ \A id \in DOMAIN policy :
          {NameOf(x) : x \in Range(policy[id])} = PolicyTable[NameOf(id)]

\* The registered policy is in force: a task of a class with a policy runs while
\* a task of a class without one (Agent::Uve) waits.
C2_Witness ==
    /\ Cardinality(DOMAIN policy) = 6
    /\ RunningClass("db::DBTable")
    /\ WaitingClass("Agent::Uve")
    /\ IdOf("Agent::Uve") \notin DOMAIN policy

Retiring(t) == running[t] = "retire"

\* C3 as stated: while the lifetime manager's retirement task runs (Shutdown /
\* Destroy of an actor), no db::DBTable shard task (drain or walker) runs.
C3_QuiescentTable ==
    \A t \in Tags : Retiring(t) =>
        /\ NameOf(t[1]) = "db::DBTable"
        /\ \A u \in Tags : (u # t /\ NameOf(u[1]) = "db::DBTable") => ~IsRunning(u)

\* C3 amended: the retirement task runs under db::DBTable, so while it runs no
\* task of a class that db::DBTable excludes or that excludes db::DBTable runs,
\* and no other work of its own (class, instance) tag; every running task
\* besides it is a db::DBTable task of another instance.
C3_RetireExcludesPolicyClasses ==
    \A t \in Tags : Retiring(t) =>
        /\ NameOf(t[1]) = "db::DBTable"
        /\ \A u \in Tags : (u # t /\ IsRunning(u)) =>
              /\ NameOf(u[1]) \notin
                   (PolicyTable["db::DBTable"]
                    \cup {n \in DOMAIN PolicyTable : "db::DBTable" \in PolicyTable[n]})
              /\ NameOf(u[1]) = "db::DBTable" => u[2] # t[2]

\* The retirement task runs beside a drain of another shard; a KSync task waits.
C3_Witness ==
    \E t \in Tags :
        /\ Retiring(t)
        /\ WaitingClass("Agent::KSync")
        /\ \E u \in Tags : u # t /\ running[u] = "drain"

\* =========================================================== claims, VRF table
FullRetireLog == <<"Delete", "Shutdown", "Destroy">>
\* DELETE was processed for the entry and its reference count has not reached zero.
PendingDelete(k) ==
    entries[k].in_part /\ entries[k].deleted /\ GetRefCount(World, k) > 0
\* DELETE was processed for the latest entry of the name and its count reached zero.
Retired(k) == actor_log[k] # <<>> /\ GetRefCount(World, k) = 0

\* C4: the actor of a VRF entry sees Delete() at most once, then Shutdown() and
\* Destroy() once each, in this order, and only after DELETE was processed for
\* the entry; an entry that was freed saw exactly this sequence; a repeated
\* DELETE causes no second Delete()/Destroy().
C4_DestroyExactlyOnce ==
    \A k \in Keys :
        /\ actor_log[k] \in {<<>>, <<"Delete">>, FullRetireLog}
        /\ (actor_log[k] # <<>> /\ entries[k].in_part) => entries[k].deleted
        /\ (entries[k].in_part /\ entries[k].deleted) => actor_log[k] # <<>>
        /\ (actor_log[k] # <<>> /\ ~entries[k].in_part) => actor_log[k] = FullRetireLog
        /\ (k \in lm_pending) <=> (actor_log[k] = <<"Delete">>)

\* A second DELETE reaches an entry whose actor was already destroyed.
C4_Witness ==
    /\ last.ev = "request" /\ last.oper = "DELETE" /\ last.pre = "deleted"
    /\ actor_log[last.key] = FullRetireLog
    /\ entries[last.key].in_part

\* C5 as stated: Destroy() runs only when no holder has a reference to the entry.
C5_DestroyAfterReferencesDropped ==
    last.ev = "destroy" => last.refs = 0

\* C5 amended: Destroy() runs only after DELETE was processed (MayDelete() being
\* true) and releases the actor's own reference, and nothing else: with holders
\* left the entry stays in the table and the name tree with their references,
\* without holders it retires at once. An entry is out of the name tree only
\* with its reference count at zero.
C5_DestroyReleasesOwnReference ==
    /\ \A k \in Keys :
          /\ (entries[k].in_part /\ actor_log[k] = FullRetireLog)
                => (~entries[k].table_ref /\ entries[k].deleted)
          /\ (entries[k].in_part /\ actor_log[k] # FullRetireLog) => entries[k].table_ref
          /\ (entries[k].in_part /\ k \notin name_tree) => GetRefCount(World, k) = 0
    /\ last.ev = "destroy" =>
          /\ DeleteActor_MayDelete(World, last.key)
          /\ last.refs > 0 =>
                /\ entries[last.key].in_part /\ entries[last.key].deleted
                /\ last.key \in name_tree
                /\ GetRefCount(World, last.key) = last.refs
          /\ last.refs = 0 => last.key \notin name_tree

\* Destroy() has just run while a holder had a reference: the entry is still there.
C5_Witness ==
    /\ last.ev = "destroy" /\ last.refs > 0
    /\ entries[last.key].in_part /\ entries[last.key].holders > 0

\* C6: from the processing of DELETE to the retirement of the entry (its count
\* reaching zero) Find(k, true) and FindVrfFromName(k) return the entry, marked
\* deleted, whether or not a listener has state on it; FindVrfFromName returns
\* null only once it retired, Find(k, true) only once it was freed.
C6_FindableUntilRetired ==
    \A k \in Keys :
        /\ PendingDelete(k) =>
              /\ Find(World, k, TRUE) = k
              /\ FindVrfFromName(World, k) = k
              /\ IsDeleted(World, k)
        /\ (actor_log[k] # <<>> /\ FindVrfFromName(World, k) = NULL) => Retired(k)
        /\ (actor_log[k] # <<>> /\ Find(World, k, TRUE) = NULL) => Retired(k)
        /\ Retired(k) => FindVrfFromName(World, k) = NULL

\* A deleted entry, destroyed by its actor, is held by a reference and by a
\* listener's state; both lookups find it.
C6_Witness ==
    \E k \in Keys :
        /\ PendingDelete(k)
        /\ actor_log[k] = FullRetireLog
        /\ entries[k].states # {}
        /\ FindVrfFromName(World, k) = k

\* C7: a request for the key of an entry that is pending delete is dropped: no
\* hook runs and no notification (no CHANGE in particular) is delivered; and
\* CanNotify is false for the config node of such an entry.
C7_NoChangeAfterDelete ==
    /\ (last.ev = "request" /\ last.pre = "deleted")
          => (last.hook = "none" /\ last.notify = "none")
    /\ last.notify = "CHANGE" => last.pre = "live"
    /\ \A k \in Keys : (entries[k].in_part /\ entries[k].deleted) => ~CanNotify(World, k)

\* An ADD for a pending-delete entry was just dropped.
C7_Witness ==
    /\ last.ev = "request" /\ last.oper = "ADD_CHANGE" /\ last.pre = "deleted"
    /\ entries[last.key].in_part /\ entries[last.key].deleted

\* C8 as stated: an ADD for an existing, not deleted VRF delivers one CHANGE.
C8_ReAddNotifiesChange ==
    (last.ev = "request" /\ last.oper = "ADD_CHANGE" /\ last.pre = "live")
        => last.notify = "CHANGE"

\* C8 amended: an ADD for an existing, not deleted VRF runs OnChange, which
\* reports no change: no notification is delivered, neither CHANGE nor ADD. ADD
\* is notified only for a key that was absent.
C8_ReAddNotifiesNothing ==
    /\ (last.ev = "request" /\ last.oper = "ADD_CHANGE" /\ last.pre = "live")
          => (last.hook = "OnChange" /\ last.notify = "none")
    /\ last.notify = "ADD" => (last.pre = "absent" /\ last.hook = "Add")

\* An ADD for a live entry was just processed.
C8_Witness ==
    /\ last.ev = "request" /\ last.oper = "ADD_CHANGE" /\ last.pre = "live"
    /\ entries[last.key].in_part /\ ~entries[last.key].deleted

IdsInUse == {entries[k].id : k \in {x \in Keys : entries[x].in_part}}

\* C9: a deleted entry with no reference and no listener state is gone, and
\* with it its name-tree mapping, its route tables and its id: after ADD k,
\* DELETE k, drain and retirement nothing of k is left.
C9_AddDeleteLeavesNothing ==
    /\ \A k \in Keys :
          /\ (entries[k].in_part /\ entries[k].deleted)
                => (GetRefCount(World, k) > 0 \/ entries[k].states # {})
          /\ ~entries[k].in_part =>
                /\ k \notin name_tree
                /\ \A t \in TableTypes : k \notin dbtree[t] /\ <<k, t>> \notin db_tables
                /\ entries[k] = NoEntry
    /\ index_table.used = IdsInUse

\* The table is empty again after an entry was added, deleted and retired.
C9_Witness ==
    /\ \A s \in Instances : req_queue[s] = <<>>
    /\ \A k \in Keys : ~entries[k].in_part
    /\ \E k \in Keys : actor_log[k] = FullRetireLog
    /\ name_tree = {} /\ db_tables = {} /\ index_table.used = {}
    /\ index_table.next > 0

\* C10: the delete timer runs from the processing of DELETE until the entry
\* retires; it fires, and aborts the process, only on an entry that has not
\* retired; an entry that retires first leaves its timer cancelled.
C10_DeleteTimer ==
    \A k \in Keys :
        /\ PendingDelete(k) => delete_timer[k] \in {"running", "fired"}
        /\ delete_timer[k] = "fired" => (aborted /\ PendingDelete(k))
        /\ ~PendingDelete(k) => delete_timer[k] \in {"none", "cancelled"}
        /\ (actor_log[k] # <<>> /\ Retired(k)) => delete_timer[k] = "cancelled"

\* One entry retired with its timer cancelled; the timer of another fired.
C10_Witness ==
    \E k1 \in Keys, k2 \in Keys :
        /\ Retired(k1) /\ ~entries[k1].in_part /\ delete_timer[k1] = "cancelled"
        /\ delete_timer[k2] = "fired" /\ aborted

\* C11: a step that destroys an entry that was added to the table (its id is
\* valid) frees the id and issues a resync for the name exactly when the
\* configuration source has a node of that name that is not deleted; a step that
\* destroys no added entry (search keys and other entries that were never added
\* have an invalid id) frees no id and issues no resync.
C11_ResyncOnDestroy ==
    [][ /\ \A k \in Keys :
             LET destroyed == entries[k].in_part /\ ~entries'[k].in_part
             IN  /\ destroyed =>
                       /\ entries[k].id # kInvalidIndex
                       /\ entries[k].id \notin index_table'.used
                       /\ cfg_node[k] = "present" => k \in resync'
                       /\ cfg_node[k] # "present" => (k \in resync' <=> k \in resync)
                 /\ ~destroyed => (k \in resync' => k \in resync)
        /\ (\A k \in Keys : entries[k].in_part => entries'[k].in_part)
               => index_table.used \subseteq index_table'.used
      ]_vars

\* The first entry ever added was destroyed while its node was present: the
\* resync is pending.
C11_Witness ==
    /\ last.ev \in {"destroy", "release", "clear_state"}
    /\ last.key = "vrf-a"
    /\ ~entries["vrf-a"].in_part
    /\ index_table = [used |-> {}, next |-> 1, handed |-> <<0>>]
    /\ cfg_node["vrf-a"] = "present"
    /\ "vrf-a" \in resync

\* ------------------------------------------- VRF table, the Add hook called
\* VrfTable::Add applied to a key as the engine applies it, whatever the name tree
\* holds: for a key that is not in the partition, or for a name of the name tree.
CallAdd(name) ==
    /\ Alive
    /\ index_table.next < MaxIds
    /\ ~entries[name].in_part \/ name \in name_tree
    /\ LET w0 == [World EXCEPT !.last = [NoEvent EXCEPT !.ev = "add_call", !.key = name,
                                                       !.pre = PendingState(World, name)]]
           w1 == VrfTable_Add(w0, name)
       IN  IF w1.aborted
           THEN Commit(w1)
           ELSE Commit([w1 EXCEPT !.entries[name].in_part = TRUE])

\* --------------------------------------------------- VRF table, with progress
\* What the agent does by itself once it can: a shard with requests is drained,
\* the lifetime manager retires a pending actor, holders and listeners of a
\* deleted entry let go of it, and a resync that was issued reaches the table
\* (the request queue of the code has no bound, so a resync never waits for room:
\* strong fairness).
ReuseFairness ==
    /\ \A s \in Instances : WF_vars(DrainShard(s))
    /\ \A k \in Keys : WF_vars(LifetimeRetire(k))
    /\ \A k \in Keys : WF_vars(ReleaseRef(k))
    /\ \A l \in Listeners, k \in Keys : WF_vars(ClearState(l, k))
    /\ \A name \in CfgKeys : SF_vars(CfgNodeReSync(name))

\* The VRFs of the configuration source alone: the agent creates none itself.
ReuseNext ==
    \/ \E s \in Instances : DrainShard(s)
    \/ \E k \in Keys : LifetimeRetire(k)
    \/ \E k \in Keys : DeleteTimeout(k)
    \/ \E k \in Keys : AcquireRef(k)
    \/ \E k \in Keys : ReleaseRef(k)
    \/ \E l \in Listeners, k \in Keys : SetState(l, k)
    \/ \E l \in Listeners, k \in Keys : ClearState(l, k)
    \/ \E name \in CfgKeys : CfgNodeChange(name)
    \/ \E name \in CfgKeys : CfgNodeDelete(name)
    \/ \E name \in CfgKeys : CfgNodeRemove(name)
    \/ \E name \in CfgKeys : CfgNodeReSync(name)

ReuseSpec == Init /\ [][ReuseNext]_vars /\ ReuseFairness

\* The same table, and the Add hook called directly.
HookNext ==
    \/ ReuseNext
    \/ \E name \in Keys : CallAdd(name)

HookSpec == Init /\ [][HookNext]_vars

\* Configuration has re-created the VRF while the old entry is pending delete.
RecreatedWhilePending(n) ==
    /\ entries[n].in_part /\ entries[n].deleted
    /\ cfg_node[n] = "present"
IntentKept(n) == entries[n].in_part /\ ~entries[n].deleted
\* What ends the obligation: the configuration withdrew the node again, the
\* process died (delete timer), or the id allocator of the model is used up.
IntentWithdrawn(n) ==
    \/ cfg_node[n] # "present"
    \/ aborted
    \/ index_table.next >= MaxIds

\* The old entry of n has retired (n has no entry in the table) and the
\* configuration node of n exists.
RetiredWithNode(n) == ~entries[n].in_part /\ cfg_node[n] = "present"

\* C12: once configuration has re-created a VRF whose old entry is pending
\* delete (the ADD is ignored), whenever the old entry has retired with the node
\* still there, a non-deleted entry of that name exists in the table again later.
C12_RecreateNotLost ==
    \A n \in CfgKeys :
        [](RecreatedWhilePending(n) =>
               [](RetiredWithNode(n) => <>(IntentKept(n) \/ IntentWithdrawn(n))))

\* The old entry was destroyed with the node present, and the resync has put the
\* ADD for the name into the queue of its shard.
C12_Witness ==
    /\ last.ev = "resync" /\ last.key = "vrf-a"
    /\ ~entries["vrf-a"].in_part
    /\ index_table.next = 1
    /\ cfg_node["vrf-a"] = "present"
    /\ req_queue[ShardOf("vrf-a")] = <<[oper |-> "ADD_CHANGE", key |-> "vrf-a"]>>

C14_DuplicateAddAborts ==
    [][ \A name \in Keys :
            (CallAdd(name) /\ name \in name_tree) =>
                /\ aborted'
                /\ name_tree' = name_tree
                /\ dbtree' = dbtree
                /\ db_tables' = db_tables
                /\ index_table' = index_table
      ]_vars

\* Add was called for the name of an entry of the table: the process is dead.
C14_Witness ==
    /\ aborted
    /\ last.ev = "add_call" /\ last.pre = "live"
    /\ last.key \in name_tree
    /\ entries[last.key].in_part /\ entries[last.key].id = 0
    /\ index_table.handed = <<0>>

\* ====================================================== claims, flow collector
\* Flows that were each other's reverse when the last pass began.
PairAtStart(f, g) ==
    /\ pass.before[f].present /\ pass.before[g].present
    /\ pass.before[f].reverse_flow = g /\ pass.before[g].reverse_flow = f
\* The flow was in the table when the last pass began and is not any more.
Deleted(f) == pass.before[f].present /\ ~flow_table[f].present
\* The pass had the flow as its entry, or deleted it as the reverse of its entry.
Visited(f) == f \in pass.visited \/ Deleted(f)

\* C15 as stated: at the end of a pass that visited both flows of a pair, one is
\* deleted if and only if the other is, whatever deleted it.
C15_PairedDeletion ==
    pass.ran => \A f \in FlowKeys, g \in FlowKeys :
        (PairAtStart(f, g) /\ Visited(f) /\ Visited(g)) => (Deleted(f) <=> Deleted(g))

\* C15 amended: a flow that the pass deletes because it aged takes its reverse
\* flow with it, and when neither flow of a pair is a short flow one is deleted if
\* and only if the other is; the short-flow shortcut deletes the short flow alone.
C15_PairedAging ==
    pass.ran => \A f \in FlowKeys, g \in FlowKeys :
        PairAtStart(f, g) =>
            /\ (Deleted(f) /\ f \notin pass.short_deleted) => Deleted(g)
            /\ (Visited(f) /\ Visited(g)
                   /\ ~pass.before[f].short_flow /\ ~pass.before[g].short_flow)
                  => (Deleted(f) <=> Deleted(g))
            /\ f \in pass.short_deleted => pass.before[f].short_flow

\* A pass had both flows of a pair as its entry: it deleted the one that is a
\* short flow and left its reverse flow in the table.
C15_Witness ==
    /\ pass.ran
    /\ \E f \in FlowKeys, g \in FlowKeys :
           /\ PairAtStart(f, g)
           /\ f \in pass.visited /\ g \in pass.visited
           /\ f \in pass.short_deleted /\ ~Deleted(g)
           /\ flow_table[g].present

\* What the last pass found when it had flow f as its entry.
KernelAhead(f) ==
    /\ pass.kernel[FlowHandle(f)].present
    /\ Less(pass.before[f].bytes, Convert(pass.kernel[FlowHandle(f)].flow_bytes, U64Len))
    /\ Less(pass.before[f].packets, Convert(pass.kernel[FlowHandle(f)].flow_packets, U64Len))
KernelRegressed(f) ==
    /\ pass.kernel[FlowHandle(f)].present
    /\ \/ Less(Convert(pass.kernel[FlowHandle(f)].flow_bytes, U64Len), pass.before[f].bytes)
       \/ Less(Convert(pass.kernel[FlowHandle(f)].flow_packets, U64Len), pass.before[f].packets)
IdleTime(f) == pass.curr_time - pass.before[f].last_modified_time
Unpaired(f) == pass.before[f].reverse_flow = NullFlow

\* C16 as stated: a flow whose kernel record exists and whose kernel bytes or
\* packets are below the stored counters is not aged, whatever its idle time.
C16_RegressedNotAged ==
    pass.ran => \A f \in pass.visited : KernelRegressed(f) => f \notin pass.aged

\* C16 amended: a flow is not aged, whatever its idle time, when its kernel record
\* exists and the kernel's bytes and packets are both above the stored counters;
\* in every other case, kernel counters below the stored ones included, it is aged
\* exactly when it has been idle for the age time, and an aged flow without a
\* reverse flow is deleted.
C16_ShouldBeAged ==
    pass.ran => \A f \in pass.visited :
        /\ KernelAhead(f) => f \notin pass.aged
        /\ ~KernelAhead(f) => (f \in pass.aged <=> IdleTime(f) >= GetFlowAgeTime)
        /\ (f \in pass.aged /\ Unpaired(f)) => Deleted(f)

\* A flow whose kernel bytes were below its stored bytes was idle for the age
\* time: it was aged and deleted.
C16_Witness ==
    /\ pass.ran
    /\ \E f \in pass.visited :
           /\ KernelRegressed(f) /\ ~KernelAhead(f)
           /\ IdleTime(f) >= GetFlowAgeTime
           /\ Unpaired(f) /\ ~pass.before[f].short_flow
           /\ f \in pass.aged /\ Deleted(f)

\* The kernel record of the flow, if there is one, has not changed since the
\* stored counters of the flow were last reconciled with it.
Settled(f) == pass.kernel[FlowHandle(f)].present => pass.before[f].synced

\* C17: when two flows are each other's reverse, both have been idle for the age
\* time and their kernel counters have not changed since they were reconciled, a
\* pass that has one of them as its entry deletes both, whatever their counters.
C17_PairAgedTogether ==
    pass.ran => \A a \in pass.visited, b \in FlowKeys :
        ( /\ PairAtStart(a, b)
          /\ IdleTime(a) >= GetFlowAgeTime /\ IdleTime(b) >= GetFlowAgeTime
          /\ Settled(a) /\ Settled(b) )
        => (Deleted(a) /\ Deleted(b))

\* Both flows of a pair had counters reconciled with their kernel records, beyond
\* 32 bits for one of them, and were idle for the age time: the pass deleted both.
C17_Witness ==
    /\ pass.ran
    /\ \E a \in pass.visited, b \in FlowKeys :
           /\ PairAtStart(a, b)
           /\ pass.kernel[FlowHandle(a)].present /\ pass.kernel[FlowHandle(b)].present
           /\ pass.before[a].synced /\ pass.before[b].synced
           /\ Less(Convert(pass.kernel[FlowHandle(a)].flow_bytes, U64Len),
                   pass.before[a].bytes)
           /\ IdleTime(a) >= GetFlowAgeTime /\ IdleTime(b) >= GetFlowAgeTime
           /\ Deleted(a) /\ Deleted(b)

\* The last pass reconciled the counters of flow f, and f is still in the table.
Reconciled(f) == pass.recon[f] # <<>> /\ flow_table[f].present

\* C18: a reconciliation never lowers the stored bytes or packets of a flow,
\* whatever the kernel counters are, and the diff it exports is the new stored
\* value minus the old one.
C18_CounterMonotonic ==
    pass.ran => \A f \in FlowKeys : Reconciled(f) =>
        /\ ~Less(flow_table[f].bytes, pass.before[f].bytes)
        /\ ~Less(flow_table[f].packets, pass.before[f].packets)
        /\ Add64(pass.before[f].bytes, pass.recon[f][1].diff_bytes) = flow_table[f].bytes
        /\ Add64(pass.before[f].packets, pass.recon[f][1].diff_pkts) = flow_table[f].packets

\* What a reconciliation must store for the old counter and the composed kernel
\* value k when the top n bytes are the held high part: the high part, one more
\* if the remaining low bytes of old exceed k, OR-ed with k.
CarryExpected(old, k, n) ==
    LET low == Zero(n) \o SubSeq(old, n + 1, U64Len)
        carry == IF Greater(low, k) THEN 1 ELSE 0
        high == (ValueOf(SubSeq(old, 1, n)) + carry) % ((ByteMax + 1) ^ n)
    IN  Or64(BytesOf(high, n) \o Zero(U64Len - n), k)

\* C19: a reconciliation keeps the high 16 bits of the stored bytes (high 24
\* bits of the stored packets), adds exactly one carry unit to them when the low
\* 48 (40) stored bits exceed the composed kernel value and nothing otherwise,
\* and stores that high part OR-ed with the kernel value.
C19_WraparoundCarry ==
    pass.ran => \A f \in FlowKeys : Reconciled(f) =>
        /\ flow_table[f].bytes =
               CarryExpected(pass.before[f].bytes, pass.recon[f][1].kernel_bytes, U16Len)
        /\ flow_table[f].packets =
               CarryExpected(pass.before[f].packets, pass.recon[f][1].kernel_pkts,
                             U64Len - U32Len - 1)

\* The last pass reconciled stored bytes 0x0000ffffffffff00 with the kernel value
\* 0x10 and stored 0x0001000000000010.
C19_Witness ==
    /\ pass.ran
    /\ \E f \in FlowKeys :
           /\ Reconciled(f)
           /\ pass.before[f].bytes = <<0, 0, 255, 255, 255, 255, 255, 0>>
           /\ pass.recon[f][1].kernel_bytes = <<0, 0, 0, 0, 0, 0, 0, 16>>
           /\ flow_table[f].bytes = <<0, 1, 0, 0, 0, 0, 0, 16>>

\* The kernel record the last pass read for flow f, and the composed values it
\* reconciled against.
KernelOf(f) == pass.kernel[FlowHandle(f)]
ComposedOf(f) == pass.recon[f][1]

\* C20 as stated: kernel_bytes = (oflow_bytes << 32) | bytes and
\* kernel_pkts = (oflow_pkts << 40) | pkts, for every kernel record.
C20_ComposeShift40 ==
    pass.ran => \A f \in FlowKeys : pass.recon[f] # <<>> =>
        /\ ComposedOf(f).kernel_bytes =
               Zero(U16Len) \o KernelOf(f).flow_bytes_oflow \o KernelOf(f).flow_bytes
        /\ ComposedOf(f).kernel_pkts =
               KernelOf(f).flow_packets_oflow \o <<0>> \o KernelOf(f).flow_packets

\* C20, amended: both counters are composed with a shift of 32, from the low 16
\* bits of the overflow field: kernel_bytes = (oflow_bytes << 32) | bytes and
\* kernel_pkts = ((oflow_pkts mod 2^16) << 32) | pkts.
C20_ComposeShift32 ==
    pass.ran => \A f \in FlowKeys : pass.recon[f] # <<>> =>
        LET oflow_pkts == KernelOf(f).flow_packets_oflow
            low16 == SubSeq(oflow_pkts, Len(oflow_pkts) - U16Len + 1, Len(oflow_pkts))
        IN  /\ ComposedOf(f).kernel_bytes =
                   Zero(U16Len) \o KernelOf(f).flow_bytes_oflow \o KernelOf(f).flow_bytes
            /\ ComposedOf(f).kernel_pkts =
                   Zero(U16Len) \o low16 \o KernelOf(f).flow_packets

\* The last pass reconciled a flow whose kernel record has a packet overflow
\* count with bits set both inside and above its low 16 bits.
C20_Witness ==
    /\ pass.ran
    /\ \E f \in FlowKeys :
           /\ pass.recon[f] # <<>>
           /\ KernelOf(f).flow_packets_oflow = <<1, 1, 0>>
           /\ ComposedOf(f).kernel_pkts = <<0, 0, 1, 0, 0, 0, 0, 0>>

\* The inputs and the results of the pacing of the last pass.
Paced == pass.ran /\ pass.pacing # <<>>
PacingOf == pass.pacing[1]

\* C21 as stated: after every pass flow_count_per_pass >= 100 and the timer
\* interval <= 1000 ms, for all total_flows, age times, multipliers and default
\* intervals.
C21_PacingClamped ==
    Paced =>
        /\ ~Less(collector.flow_count_per_pass, U32(MinCountPerPass))
        /\ ~Less(U32(MaxTimerInterval), collector.flow_timer_interval)

\* C21, amended: after every pass that recomputes the pacing,
\* flow_count_per_pass >= 100; the timer interval is <= 1000 ms when flows are
\* left in the table, and is the configured default, whatever its value, when
\* none is left.
C21_PacingBounds ==
    Paced =>
        /\ ~Less(collector.flow_count_per_pass, U32(MinCountPerPass))
        /\ PacingOf.total_flows # Zero32 =>
               ~Less(U32(MaxTimerInterval), collector.flow_timer_interval)
        /\ PacingOf.total_flows = Zero32 =>
               collector.flow_timer_interval = PacingOf.default_interval

\* A pass over a table left empty, with a default interval of 2000 ms, and the
\* product of the age time and the multiplier past 2^32.
C21_Witness ==
    /\ Paced
    /\ \/ /\ PacingOf.total_flows = Zero32
          /\ collector.flow_timer_interval = U32(2000)
       \/ /\ PacingOf.total_flows = U32(3)
          /\ PacingOf.age_time_millisec = <<128, 0, 0, 0>>
          /\ PacingOf.multiplier = <<255, 255, 255, 255>>

\* The last pass found the table empty and returned at once.
FoundEmpty == pass.ran /\ pass.pacing = <<>>

\* C22: after a pass that fired with total_flows == 0, the table empty at its
\* start or emptied by it, the timer interval in force is flow_default_interval.
C22_DefaultWhenEmpty ==
    (FoundEmpty \/ (Paced /\ PacingOf.total_flows = Zero32)) =>
        collector.flow_timer_interval = U32(flow_default_interval)

\* A step that is a pass of the collector over a table that is not empty.
PassStep == collector'.run_counter # collector.run_counter /\ Size(flow_table) > 0
\* The flows a step takes out of the table.
Removed == {f \in FlowKeys : flow_table[f].present /\ ~flow_table'[f].present}
\* The flows a pass has ahead of it: those after the saved key, or the whole
\* table when there is none.
Ahead ==
    LET after == {f \in FlowKeys :
                     f > collector.flow_iteration_key /\ flow_table[f].present}
    IN  IF after # {} THEN after ELSE {f \in FlowKeys : flow_table[f].present}
FirstOf(S) == CHOOSE f \in S : \A g \in S : f <= g
LastOf(S) == CHOOSE f \in S : \A g \in S : g <= f
\* The pass of this step went through the table to its end.
ReachedEnd == ~\E f \in FlowKeys : f > LastOf(pass'.visited) /\ flow_table'[f].present
\* The visited flows start at the first flow ahead and leave out no flow but
\* those the pass removed; the saved key is reset exactly at the end of the
\* table, and is the last visited key otherwise.
WindowAndKey ==
    LET V == pass'.visited
    IN  /\ V # {}
        /\ FirstOf(V) = FirstOf(Ahead)
        /\ \A f \in Ahead : f <= LastOf(V) => f \in V \cup Removed
        /\ collector'.flow_iteration_key = NullFlow <=> ReachedEnd
        /\ ~ReachedEnd => collector'.flow_iteration_key = LastOf(V)

ExportsOf(f) ==
    {i \in DOMAIN pass.log : pass.log[i].ev = "export" /\ pass.log[i].flow = f}
DeletionsOf(f) ==
    {i \in DOMAIN pass.log :
        /\ pass.log[i].ev = "delete"
        /\ \/ pass.log[i].flow = f
           \/ /\ pass.log[i].rev_flow_del
              /\ pass.before[pass.log[i].flow].reverse_flow = f}

\* C24: a flow marked short_flow that a pass visits is out of the table when the
\* pass ends, and the pass deletes it after every export record it emits for it.
C24_ShortFlowDeleted ==
    pass.ran => \A f \in pass.visited :
        pass.before[f].short_flow =>
            /\ Deleted(f)
            /\ DeletionsOf(f) # {}
            /\ \A i \in ExportsOf(f), j \in DeletionsOf(f) : i < j

\* A short flow whose kernel counters had moved was visited: the pass exported
\* it and then deleted it.
C24_Witness ==
    /\ pass.ran
    /\ \E f \in pass.visited :
           /\ pass.before[f].short_flow
           /\ ExportsOf(f) # {}
           /\ f \in pass.short_deleted
           /\ Deleted(f)

\* The export records of flow f in the log of the last pass, in order.
ExportRecordsOf(f) ==
    SelectSeq(pass.log, LAMBDA e : e.ev = "export" /\ e.flow = f)

\* C25: a reconciliation of a local flow emits exactly two records, first
\* direction_ing = 1 with the flow's uuid, then direction_ing = 0 with its
\* egress uuid; a reconciliation of any other flow emits exactly one record, with
\* direction_ing = 1 if and only if the flow is an ingress flow.
C25_ExportRecords ==
    pass.ran => \A f \in FlowKeys :
        LET recs == ExportRecordsOf(f)
            flow == pass.before[f]
        IN  IF pass.recon[f] = <<>> THEN recs = <<>>
            ELSE IF flow.local_flow
                 THEN /\ Len(recs) = 2
                      /\ recs[1].direction_ing = 1
                      /\ recs[1].flowuuid = <<"string", FlowUuid(f)>>
                      /\ recs[2].direction_ing = 0
                      /\ recs[2].flowuuid = <<"string", EgressUuid(f)>>
                 ELSE /\ Len(recs) = 1
                      /\ recs[1].direction_ing \in {0, 1}
                      /\ recs[1].direction_ing = 1 <=> flow.ingress

\* The last pass exported a local flow and a flow that is not local and not
\* ingress.
C25_Witness ==
    /\ pass.ran
    /\ \E f \in FlowKeys, g \in FlowKeys :
           /\ pass.before[f].local_flow /\ Len(ExportRecordsOf(f)) = 2
           /\ ~pass.before[g].local_flow /\ ~pass.before[g].ingress
           /\ Len(ExportRecordsOf(g)) = 1

\* The export records of the last pass.
ExportRecords == {i \in DOMAIN pass.log : pass.log[i].ev = "export"}

\* C26: an exported record's sourceip is the destination address of the reverse
\* flow's key exactly when the flow is NAT-ed, the record has direction_ing = 1,
\* a reverse flow exists and that address differs from the source address of the
\* flow's key; in every other record, every record with direction_ing = 0
\* included, it is the source address of the flow's own key.
C26_SourceIpOverride ==
    pass.ran => \A i \in ExportRecords :
        LET e == pass.log[i]
            flow == pass.before[e.flow]
            rev_flow == IF flow.reverse_flow = NullFlow THEN NoFlow
                        ELSE pass.before[flow.reverse_flow]
            overridden == /\ flow.nat /\ e.direction_ing = 1
                          /\ rev_flow.present /\ rev_flow.dst # flow.src
        IN  /\ overridden => e.sourceip = rev_flow.dst
            /\ ~overridden => e.sourceip = flow.src

\* The last pass deleted flow f by the aging test, not as a short flow.
AgedOut(f) == Deleted(f) /\ f \notin pass.short_deleted
\* ShouldBeAged held for flow f as the last pass found it.
AgingEligible(f) == ~KernelAhead(f) /\ IdleTime(f) >= GetFlowAgeTime

\* C29: a flow idle for less than the age time is not aged, whatever its kernel
\* record holds, and is not deleted by the aging test; a flow with a reverse flow
\* is deleted by aging only when ShouldBeAged holds for both, and then both go.
\* (A flow whose reverse flow the pass has already deleted as a short flow has no
\* reverse flow any more when it is tested.)
C29_NoEarlyAging ==
    pass.ran => \A f \in FlowKeys :
        /\ IdleTime(f) < GetFlowAgeTime => (f \notin pass.aged /\ ~AgedOut(f))
        /\ AgedOut(f) => AgingEligible(f)
        /\ \A g \in FlowKeys :
               (AgedOut(f) /\ PairAtStart(f, g) /\ g \notin pass.short_deleted)
                   => (AgingEligible(g) /\ AgedOut(g))

\* A visited flow was aging-eligible, but its reverse flow had been idle for less
\* than the age time: the pass left both in the table.
C29_Witness ==
    /\ pass.ran
    /\ \E f \in pass.visited, g \in FlowKeys :
           /\ PairAtStart(f, g)
           /\ f \in pass.aged
           /\ IdleTime(g) < GetFlowAgeTime
           /\ ~pass.before[f].short_flow /\ ~pass.before[g].short_flow
           /\ flow_table[f].present /\ flow_table[g].present

\* C30: a pass leaves the bytes, the packets and the last_modified_time of a
\* visited flow as they were, and emits no export record for it, when the flow
\* has no kernel record or its kernel record has not changed since the flow was
\* last reconciled with it, whatever the size of the stored counters.
C30_IdleFlowUntouched ==
    pass.ran => \A f \in pass.visited :
        (flow_table[f].present /\ Settled(f)) =>
            /\ flow_table[f].bytes = pass.before[f].bytes
            /\ flow_table[f].packets = pass.before[f].packets
            /\ flow_table[f].last_modified_time = pass.before[f].last_modified_time
            /\ ExportsOf(f) = {}

\* =========================================================== claims, table walks
\* The walks started so far, and those whose done_fn has not been invoked yet.
Started(id) == walker.walks[id].state # "free"
Outstanding(id) == walker.walks[id].state = "running"
DelPeerWalk(id) == walker.walks[id].done_fn \in DelPeerDoneFns

C28_CleanupAtZero ==
    [][ /\ (peer.num_walks # 0 /\ peer'.num_walks = 0)
            => peer'.cleanups = peer.cleanups + 1
        /\ (peer'.cleanups # peer.cleanups)
            => \A id \in WalkIds :
                   ~(walker'.walks[id].done_fn \in DelPeerDoneFns
                     /\ walker'.walks[id].state = "running") ]_vars

\* ====================================================== claims, module creation
\* C36: CreateModules connects to the collector exactly when no discovery server
\* is configured and the collector address and the collector port are both set
\* (non-zero); with the address unset it does not connect.
C36_ConnectWhenConfigured ==
    agent_modules.created =>
        (agent_modules.connect # <<>>
            <=> ( /\ agent_modules.dss_addr = ""
                  /\ agent_modules.collector_addr # Zero32
                  /\ agent_modules.collector_port # 0 ))

\* ================================================== claims, configuration nodes
\* C35: a call of IFNodeToReq returns false; for the node of the fabric VRF or
\* of the link-local VRF it leaves the request queues as they are; for any other
\* node it appends one request for the name of the node to the queue of its
\* shard and leaves the other queues alone, DELETE for a deleted node and
\* ADD_CHANGE otherwise.
C35_NodeRequests ==
    [][ last'.ev = "IFNodeToReq" =>
          LET name == last'.key
              req == [oper |-> IF cfg_node[name] = "deleted"
                               THEN "DELETE" ELSE "ADD_CHANGE",
                      key |-> name]
          IN  /\ last'.notify = "false"
              /\ name \in {fabric_vrf_name, link_local_vrf_name}
                    => req_queue' = req_queue
              /\ name \notin {fabric_vrf_name, link_local_vrf_name}
                    => req_queue' = [req_queue EXCEPT
                                        ![ShardOf(name)] = Append(@, req)] ]_vars

\* IFNodeToReq was called for the deleted node of the fabric VRF after a call for
\* the deleted node of another VRF: the only request queued is that DELETE.
C35_Witness ==
    /\ last.ev = "IFNodeToReq" /\ last.key = fabric_vrf_name /\ last.pre = "deleted"
    /\ QueuedRequests = 1
    /\ \E s \in Instances : req_queue[s] = <<[oper |-> "DELETE", key |-> "vrf-a"]>>

\* ======================================================== claims, name tree
\* C34: the name tree holds the names of the entries that are in the table and
\* have not retired, live or pending delete, and no others; and the process never
\* dies on the duplicate-key assertion of VrfTable::Add.
C34_NameTreeExact ==
    /\ name_tree = {k \in Keys : entries[k].in_part /\ ~Retired(k)}
    /\ ~(aborted /\ last.ev = "request" /\ last.hook = "Add")

\* One entry is live and another is pending delete, held by a reference: both
\* names are in the name tree; a request for the pending one was just dropped.
C34_Witness ==
    /\ \E a \in Keys, b \in Keys :
           /\ entries[a].in_part /\ ~entries[a].deleted
           /\ PendingDelete(b) /\ entries[b].holders > 0
           /\ name_tree = {a, b}
           /\ last.ev = "request" /\ last.key = b /\ last.oper = "ADD_CHANGE"
           /\ last.pre = "deleted"

\* ======================================================== claims, peer walk id
\* The walks over the VRF table whose id the peer keeps as its unicast walk id.
VrfUcWalk(id) ==
    walker.walks[id].done_fn \in {"VrfTable::DelPeerDone", "VrfTable::VrfNotifyDone"}
\* The walk over the VRF table started last, if there is one.
LatestVrfUcWalk(id) ==
    /\ VrfUcWalk(id)
    /\ \A other \in WalkIds : VrfUcWalk(other) => other <= id

\* C33: while the VRF-table walk started last is in progress the peer's walk id
\* is its id; the peer's walk id is the invalid id only when no VRF-table walk is
\* in progress; so at most one VRF-table walk is in progress that has not been
\* cancelled.
C33_WalkIdTracksLatest ==
    /\ \A id \in WalkIds :
          (LatestVrfUcWalk(id) /\ Outstanding(id)) => peer.vrf_uc_walkid = id
    /\ peer.vrf_uc_walkid = kInvalidWalkerId
          => \A id \in WalkIds : ~(VrfUcWalk(id) /\ Outstanding(id))
    /\ Cardinality({id \in WalkIds :
                       VrfUcWalk(id) /\ Outstanding(id) /\ ~walker.walks[id].cancel}) <= 1

\* ===================================================== claims, routes of a VRF
NoRoutes(k) == \A t \in TableTypes : entries[k].routes[t] = 0

\* C32: the DeleteActor of a VRF reports MayDelete() only when the route tables
\* of the VRF are empty, and the lifetime manager retires the actor (Shutdown,
\* Destroy) only then; a VRF entry is freed only with its route tables empty.
C32_RetireOnlyWhenEmpty ==
    [][ \A k \in Keys :
          /\ (k \in lm_pending /\ DeleteActor_MayDelete(World, k)) => NoRoutes(k)
          /\ (k \in lm_pending /\ k \notin lm_pending') => NoRoutes(k)
          /\ (entries[k].in_part /\ ~entries'[k].in_part) => NoRoutes(k) ]_vars

\* ---- the scan over a table of more flows than one pass takes ----

\* The keys of the scan: a pass of MinCountPerPass entries for every run of the
\* collector, and one flow more, the flow with the greatest key.
ScanKeys == 1 .. (MaxRuns * MinCountPerPass + 1)
LastFlow == MaxRuns * MinCountPerPass + 1
\* The flows the flow table has room for.
ScanCapacity == MinCountPerPass + 1
\* The passes that take every flow of a full table: table size over
\* flow_count_per_pass, rounded up.
PassBound == (ScanCapacity + MinCountPerPass - 1) \div MinCountPerPass

\* What the scan has done for a flow: the passes that ran since the flow was
\* set up or last visited, whether a flow was set up in that time, and the
\* passes the flow had waited at its last visit.
NoScan == [missed |-> 0, overtaken |-> FALSE, waited |-> 0]

\* The packet path sets up a flow: the first free key after the key the
\* iteration stands at, while the table has room.
ScanInsert ==
    LET free == {k \in ScanKeys : k > collector.flow_iteration_key
                                  /\ ~flow_table[k].present}
    IN  /\ Size(flow_table) < ScanCapacity
        /\ free # {}
        /\ \E key \in {CHOOSE k \in free : \A j \in free : k <= j} :
               /\ flow_table' = [flow_table EXCEPT ![key] = NewFlow(key)]
               /\ flow_env' = [flow_env EXCEPT !.scan =
                      [k \in ScanKeys |->
                          IF k = key THEN NoScan
                          ELSE IF flow_table[k].present
                               THEN [@[k] EXCEPT !.overtaken = TRUE]
                               ELSE @[k]]]
        /\ UNCHANGED <<kernel_flows, collector, pass>>
        /\ UNCHANGED <<schedVars, vrfVars, walkVars, moduleVars>>

\* The timer of the collector fires: FlowStatsCollector::Run, and the record of
\* the flows the pass visited and of those it left waiting.
ScanRun ==
    /\ collector.run_counter < MaxRuns
    /\ \E r \in {RunPass(collector, flow_table, kernel_flows, Now)} :
           /\ collector' = r.collector
           /\ flow_table' = r.flows
           /\ pass' = r.pass
           /\ flow_env' = [flow_env EXCEPT !.scan =
                  [k \in ScanKeys |->
                      IF k \in r.pass.visited
                      THEN [missed |-> 0, overtaken |-> FALSE,
                            waited |-> IF @[k].overtaken THEN 0 ELSE @[k].missed]
                      ELSE IF flow_table[k].present
                           THEN [@[k] EXCEPT !.missed = @ + 1]
                           ELSE @[k]]]
    /\ UNCHANGED kernel_flows
    /\ UNCHANGED <<schedVars, vrfVars, walkVars, moduleVars>>

\* A full table before the first pass: the flows of the first MinCountPerPass
\* keys, all of them short flows or none, and the flow with the greatest key.
ScanInit ==
    /\ \E short \in BOOLEAN :
           flow_table = [k \in ScanKeys |->
                           IF k <= MinCountPerPass
                           THEN [NewFlow(k) EXCEPT !.short_flow = short]
                           ELSE IF k = LastFlow THEN NewFlow(k) ELSE NoFlow]
    /\ kernel_flows = [k \in ScanKeys |-> NoKernelFlow]
    /\ collector = NewCollector
    /\ flow_env = [ticks |-> 0, kernel_sets |-> 0, scan |-> [k \in ScanKeys |-> NoScan]]
    /\ pass = NoPass

ScanNext ==
    \/ ScanInsert
    \/ Tick
    \/ ScanRun

ScanSpecInit == SchedInit /\ VrfInit /\ ScanInit /\ NoWalks /\ NoModules
ScanSpec == ScanSpecInit /\ [][ScanNext]_vars

\* C31: no flow is starved by the aging iteration: every flow that stays in the
\* flow table is visited by some pass within table size / flow_count_per_pass
\* passes, whatever flows are inserted or deleted between and during the passes
\* and whatever its key is.
C31_NoStarvation ==
    \A k \in DOMAIN flow_table :
        flow_table[k].present => flow_env.scan[k].missed < PassBound

\* C31, amended: a flow that stays in the flow table while no flow is set up is
\* visited by one of PassBound passes in a row, whatever flows are deleted
\* between and during the passes and whatever its key is.
C31_VisitedUnlessOvertaken ==
    \A k \in DOMAIN flow_table :
        (flow_table[k].present /\ ~flow_env.scan[k].overtaken)
            => flow_env.scan[k].missed < PassBound

\* The flow with the greatest key waited through a pass that used up its count,
\* no flow was set up, and the next pass visited it.
C31_Witness ==
    /\ pass.ran
    /\ LastFlow \in pass.visited
    /\ flow_env.scan[LastFlow].waited = 1
    /\ collector.run_counter = MaxRuns
====
